---- MODULE Spec2Model ----
(***************************************************************************)
(* Model of the booking-calendar grid (BookingCalendar) of the restaurant   *)
(* dashboard: the quick-edit staging engine (select / move / resize /       *)
(* pending changes / apply / cancel), the view window it works in, and the  *)
(* booking update collaborator it calls on apply.                           *)
(* Further sections model the availability resolvers and the booking form,  *)
(* the new-booking calendar (NewBookingCalendar) with its preview booking,  *)
(* and the session kept by AuthProvider.                                    *)
(*                                                                          *)
(* Conventions                                                              *)
(*  - a "HH:mm" string is the pair <<h, m>> of the two numbers its parts    *)
(*    parse to; the empty string is <<>>;                                   *)
(*  - a Date is a minute count; pointer positions and the grab offset are   *)
(*    counted in half minutes from the left border of the content area, so  *)
(*    that sub-minute pointer times exist;                                  *)
(*  - percentages of the 420-minute window are kept as minutes (x 4.2).     *)
(***************************************************************************)
EXTENDS Integers, Sequences, FiniteSets, Bags, TLC

VARIABLES
    isQuickEdit,          \* useState(false)
    pendingChanges,       \* Map<id, {time, table, duration}>, as its set of entries
    selectedBooking,      \* Booking | null (the moving booking)
    clickOffsetPercent,   \* grab offset, in half minutes of the window
    selectedBookingWidth, \* pixel width of the grabbed block (0 = cleared)
    previewPosition,      \* {table, time, leftPercent} | null
    resizeMode,           \* "left" | "right" | null
    resizeBooking,        \* Booking | null
    previewDuration,      \* number
    previewTime,          \* "HH:mm" | ""
    currentTime,          \* anchor: minute of day of the view's anchor time
    anchorDay,            \* calendar day of the anchor instant
    selectedDate,         \* calendar day shown
    isLive,               \* live tracking
    bookings,             \* the fetched snapshot (query cache) id -> Booking
    server,               \* the backend's bookings id -> Booking
    inflight,             \* bag of update requests issued, not yet answered
    refetchPending,       \* an invalidated bookings query awaits its refetch
    lastPublished,        \* history: (table, time) published by the last move preview
    lastStaged,           \* history: id -> the value staged last for it in this session
    applyCount,           \* history: number of applyAll calls that sent something
    stagings,             \* history: number of confirmed gestures
    navSteps,             \* history: number of view navigation steps
    tablesData,           \* the fetched tables, in the order the backend lists them
    query,                \* the values an availability question is asked for
    answer,               \* what the availability resolvers answered for query
    timeInputValue,       \* text of the time input, as its characters
    onSlotClick,          \* the caller supplied the onSlotClick prop
    slotEffect,           \* what the last click on an empty slot did
    restaurant,           \* the restaurant the booking form reads the hours of
    submitResult,         \* outcome of submitting the booking form
    serverTables,         \* the backend's tables, active and inactive
    initialTime,          \* the initialTime prop of the grid: (day, minute) | undefined
    initialTable,         \* the table the new-booking form was opened for | undefined
    previewTableState,    \* table of the preview booking | null
    previewTimeState,     \* time of the preview booking
    calendarViewTime,     \* "HH:mm" the new-booking calendar's view is anchored at
    isInitialized,        \* isInitialized.current of the new-booking calendar
    effectDeps,           \* the dependencies the preview-update effect last ran with
    user,                 \* AuthState.user | null
    isLoading,            \* AuthState.isLoading
    token,                \* localStorage holds a token
    userRequests,         \* bag of getCurrentUser calls not yet answered
    loginStage,           \* where a login call stands
    loggedOut             \* history: logout ran and no login has succeeded since

vars == <<isQuickEdit, pendingChanges, selectedBooking, clickOffsetPercent,
          selectedBookingWidth, previewPosition, resizeMode, resizeBooking,
          previewDuration, previewTime, currentTime, anchorDay, selectedDate,
          isLive, bookings, server, inflight, refetchPending,
          lastPublished, lastStaged, applyCount, stagings, navSteps,
          tablesData, query, answer, timeInputValue, onSlotClick, slotEffect,
          restaurant, submitResult, serverTables, initialTime, initialTable,
          previewTableState, previewTimeState, calendarViewTime, isInitialized,
          effectDeps, user, isLoading, token, userRequests, loginStage, loggedOut>>

selVars == <<selectedBooking, clickOffsetPercent, selectedBookingWidth,
             previewPosition, resizeMode, resizeBooking, previewDuration,
             previewTime>>
viewVars == <<currentTime, anchorDay, selectedDate, isLive, navSteps,
              timeInputValue>>
netVars == <<bookings, server, inflight, refetchPending>>
histVars == <<lastPublished>>
countVars == <<applyCount, stagings, lastStaged>>
previewVars == <<initialTime, initialTable, previewTableState, previewTimeState,
                 calendarViewTime, isInitialized, effectDeps>>
authVars == <<user, isLoading, token, userRequests, loginStage, loggedOut>>
availVars == <<tablesData, query, answer, onSlotClick, slotEffect, restaurant,
               submitResult, serverTables, previewVars, authVars>>
calendarVars == <<isQuickEdit, pendingChanges, selVars, viewVars, inflight,
                  refetchPending, histVars, countVars>>

----------------------------------------------------------------------------
(* Program constants *)
MIN_DURATION == 60
MAX_DURATION == 180
TOTAL_WINDOW_MINUTES == 420
WINDOW_HOURS_PREV == 1
WINDOW_HOURS_NEXT == 6
SNAP_MINUTES == 15

(* Bounds of the model *)
MaxApply == 1       \* applyAll calls that send something, per behaviour
MaxInFlight == 2    \* update requests awaiting their answer
MaxStagings == 2    \* gestures confirmed, per behaviour
MaxNav == 1         \* view navigation steps, per behaviour
MaxDrift == 160     \* minutes before midnight a resize preview is followed to
MaxViewNav == 2     \* view navigation steps, per behaviour of the view alone

BookingIds == {1, 2}
\* the table rows: the labels of the fetched tables, or, when no table is
\* fetched, the tables the bookings sit on
TableNumbers ==
    IF Len(tablesData) > 0
    THEN {tablesData[k].table_number : k \in 1..Len(tablesData)}
    ELSE {bookings[i].table : i \in DOMAIN bookings} \ {""}
Today == 0

\* pointer positions inside the row's content area, in half minutes from the
\* left border (0 .. 840)
PointerPositions == {60, 330}
\* where inside the block the booking is grabbed, in half minutes
GrabOffsets == {15}
\* the pointer positions followed while the view is navigated as well
NavPointerPositions == {330}

----------------------------------------------------------------------------
(* Values *)
EmptyTime == <<>>
NoBooking == [id |-> 0, time |-> EmptyTime, table |-> "", duration |-> 0, date |-> 0]
NoPreview == [table |-> "", time |-> EmptyTime, leftPercent |-> 0]
NoMode == "none"
\* no table (null / undefined / ""), no availability question, no answer
NoTable == ""
NoQuery == [time |-> EmptyTime, date |-> Today, duration |-> 0, guests |-> 0,
            table |-> NoTable]
NoAnswer == [done |-> {}, single |-> FALSE, first |-> NoTable, form |-> <<>>]
\* no slot was clicked, no restaurant is fetched, the form was not submitted
NoSlotEffect == [callback |-> FALSE, navigate |-> FALSE, date |-> Today,
                 time |-> EmptyTime, table |-> NoTable]
NoRestaurant == [present |-> FALSE, hasHours |-> FALSE, dayOpen |-> FALSE,
                 open |-> EmptyTime, close |-> EmptyTime]
NoSubmit == [status |-> "none", call |-> NoQuery]
\* the grid is mounted without initialTime; nobody is signed in
NoInitialTime == <<>>
NoUser == "none"
\* the account the backend knows
SomeUser == "user"

\* the preview-update effect has not run
NoDeps == <<>>

\* the new-booking calendar is not on the page
NoPreviewCalendar ==
    /\ initialTable = NoTable
    /\ previewTableState = NoTable
    /\ previewTimeState = EmptyTime
    /\ calendarViewTime = EmptyTime
    /\ isInitialized = FALSE
    /\ effectDeps = NoDeps

\* the session of a signed-in user with no request under way
SignedIn ==
    /\ user = SomeUser
    /\ isLoading = FALSE
    /\ token = TRUE
    /\ userRequests = EmptyBag
    /\ loginStage = "idle"
    /\ loggedOut = FALSE

Max(a, b) == IF a >= b THEN a ELSE b
Min(a, b) == IF a <= b THEN a ELSE b

\* JavaScript's % (sign of the dividend)
JsRem(a, b) == IF a >= 0 THEN a % b ELSE 0 - ((0 - a) % b)

\* Math.round(n / d) for d > 0: floor(n/d + 1/2)
MathRound(n, d) == (2 * n + d) \div (2 * d)

\* const [h, m] = t.split(":").map(Number); h * 60 + m
ParseMinutes(t) == t[1] * 60 + t[2]

\* `${String(Math.floor(x / 60)).padStart(2,'0')}:${String(x % 60).padStart(2,'0')}`
FormatMinutes(x) == <<x \div 60, JsRem(x, 60)>>

\* format(date, "HH:mm") of the instant x minutes after midnight of some day
FormatHHmm(x) == <<(x \div 60) % 24, x % 60>>

normalizeTable(value) == value

\* the characters of a text: the digits and whatever else is typed
DigitChars == <<"0", "1", "2", "3", "4", "5", "6", "7", "8", "9">>
IsDigit(c) == \E n \in 1..10 : DigitChars[n] = c
DigitValue(c) == (CHOOSE n \in 1..10 : DigitChars[n] = c) - 1
DigitChar(n) == DigitChars[n + 1]

\* Number(text) of a run of digits
RECURSIVE NumberOfText(_)
NumberOfText(t) ==
    IF t = <<>> THEN 0
    ELSE 10 * NumberOfText(SubSeq(t, 1, Len(t) - 1)) + DigitValue(t[Len(t)])

\* format(date, "HH:mm") as text, for the minute x of the day
FormatText(x) ==
    <<DigitChar((x \div 60) \div 10), DigitChar((x \div 60) % 10), ":",
      DigitChar((x % 60) \div 10), DigitChar((x % 60) % 10)>>

\* /^([0-1]?[0-9]|2[0-3]):([0-5][0-9])$/.test(text)
timeRegexTest(t) ==
    \/ /\ Len(t) = 5
       /\ t[3] = ":"
       /\ \/ t[1] \in {"0", "1"} /\ IsDigit(t[2])
          \/ t[1] = "2" /\ t[2] \in {"0", "1", "2", "3"}
       /\ t[4] \in {"0", "1", "2", "3", "4", "5"}
       /\ IsDigit(t[5])
    \/ /\ Len(t) = 4
       /\ t[2] = ":"
       /\ IsDigit(t[1])
       /\ t[3] \in {"0", "1", "2", "3", "4", "5"}
       /\ IsDigit(t[4])

\* timeInputValue.split(":").map(Number) of a text the regex accepts
SplitHours(t) == NumberOfText(SubSeq(t, 1, Len(t) - 3))
SplitMinutes(t) == NumberOfText(SubSeq(t, Len(t) - 1, Len(t)))

----------------------------------------------------------------------------
(* The view window *)

\* viewStart.getHours() * 60 + viewStart.getMinutes(), where viewStart carries
\* the time of day of windowStart = subHours(currentTime, 1)
viewStartMinutes == (currentTime - WINDOW_HOURS_PREV * 60) % 1440

\* minutes of a booking's start after midnight of its date
BookingMinutes(b) == ParseMinutes(b.time)

\* getBookingPosition, as minutes after viewStart (percent x 4.2); the booking
\* is drawn only on its own date, which is then the selected date
getBookingPosition(b) == BookingMinutes(b) - viewStartMinutes

----------------------------------------------------------------------------
(* Pending changes and the effective booking *)

\* pendingChanges.has(id) and pendingChanges.get(id)
HasPending(id) == \E e \in pendingChanges : e.id = id
NoEntry == [id |-> 0, time |-> EmptyTime, table |-> "", duration |-> 0]
PendingGet(id) == IF HasPending(id) THEN CHOOSE e \in pendingChanges : e.id = id
                                   ELSE NoEntry

\* x || y on numbers
OrNum(x, y) == IF x # 0 THEN x ELSE y
\* x || y on strings
OrStr(x, y) == IF x # EmptyTime THEN x ELSE y

getEffectiveBooking(b) ==
    IF HasPending(b.id)
    THEN [b EXCEPT !.time = PendingGet(b.id).time,
                   !.table = PendingGet(b.id).table,
                   !.duration = PendingGet(b.id).duration]
    ELSE IF resizeBooking.id = b.id /\ previewDuration > 0
    THEN [b EXCEPT !.duration = previewDuration,
                   !.time = OrStr(previewTime, b.time)]
    ELSE b

\* variants of Map.set: one that keeps the entry a key already has, one that
\* adds the new entry next to it
MapSetKeepFirst(map, id, value) ==
    IF \E e \in map : e.id = id THEN map
    ELSE map \cup {[id |-> id, time |-> value.time, table |-> value.table,
                    duration |-> value.duration]}
MapSetAppend(map, id, value) ==
    map \cup {[id |-> id, time |-> value.time, table |-> value.table,
               duration |-> value.duration]}

\* newMap.set(id, value): the entry of the key is replaced
MapSet(map, id, value) ==
    {e \in map : e.id # id}
      \cup {[id |-> id, time |-> value.time, table |-> value.table,
              duration |-> value.duration]}

EmptyMap == {}

NothingStaged == [i \in BookingIds |-> NoEntry]
RecordStaged(id, value) ==
    [lastStaged EXCEPT ![id] = [id |-> id, time |-> value.time,
                                table |-> value.table, duration |-> value.duration]]

\* the bookings .filter/.map of the render: b is drawn as a block in a row
IsRendered(b) ==
    LET effective == getEffectiveBooking(b)
        leftPos == getBookingPosition(effective)
        width == effective.duration
    IN /\ b.date = selectedDate
       /\ normalizeTable(effective.table) \in TableNumbers
       /\ ~(leftPos + width < 0 \/ leftPos > TOTAL_WINDOW_MINUTES)

\* isOtherSelected of the render: another booking is selected or resized
isOtherSelected(b) ==
    /\ (selectedBooking # NoBooking \/ resizeBooking # NoBooking)
    /\ selectedBooking.id # b.id
    /\ resizeBooking.id # b.id

----------------------------------------------------------------------------
(* Pure parts of the handlers *)

\* Math.round(mouseTimeMinutes / 15) * 15 for the pointer at p half minutes
SnappedMouseMinutes(p) ==
    MathRound(2 * viewStartMinutes + p, 2 * SNAP_MINUTES) * SNAP_MINUTES

\* variant: the right edge drags the start along with the pointer
ResizePreviewMovingStart(mode, curTime, curDuration, snapped) ==
    LET startTimeMinutes == ParseMinutes(curTime)
        endTimeMinutes == startTimeMinutes + curDuration
        raw == IF mode = "right" THEN snapped - startTimeMinutes
                                 ELSE endTimeMinutes - snapped
        newDuration == Max(MIN_DURATION, Min(MAX_DURATION, raw))
    IN [duration |-> newDuration,
        time |-> IF mode = "left"
                 THEN FormatMinutes(endTimeMinutes - newDuration)
                 ELSE FormatMinutes(snapped - newDuration)]

\* resize branch of handleMouseMove: the new (duration, time) of the preview
ResizePreview(mode, curTime, curDuration, snapped) ==
    LET startTimeMinutes == ParseMinutes(curTime)
        endTimeMinutes == startTimeMinutes + curDuration
        raw == IF mode = "right" THEN snapped - startTimeMinutes
                                 ELSE endTimeMinutes - snapped
        newDuration == Max(MIN_DURATION, Min(MAX_DURATION, raw))
    IN [duration |-> newDuration,
        time |-> IF mode = "left"
                 THEN FormatMinutes(endTimeMinutes - newDuration)
                 ELSE curTime]

\* move branch of handleMouseMove: the preview published for the pointer at p
MovePreview(p, targetTable) ==
    LET adjusted == Max(0, Min(2 * TOTAL_WINDOW_MINUTES, p - clickOffsetPercent))
        instant == (2 * viewStartMinutes + adjusted) \div 2   \* whole minutes of newDateTime
        minutes == instant % 60                               \* getMinutes()
        roundedMinutes == MathRound(minutes, SNAP_MINUTES) * SNAP_MINUTES
        newTime == FormatHHmm(instant - minutes + roundedMinutes)
    IN [table |-> targetTable,
        time |-> newTime,
        leftPercent |-> ParseMinutes(newTime) - viewStartMinutes]

\* variant: the resize forgets the table of an earlier pending move
StagedResizeStoredTable(b) ==
    LET existing == PendingGet(b.id)
    IN [time |-> OrStr(previewTime, OrStr(existing.time, b.time)),
        table |-> normalizeTable(b.table),
        duration |-> previewDuration]

\* the entry a confirmed resize stores for booking b
StagedResize(b) ==
    LET existing == PendingGet(b.id)
    IN [time |-> OrStr(previewTime, OrStr(existing.time, b.time)),
        table |-> normalizeTable(IF HasPending(b.id) THEN existing.table ELSE b.table),
        duration |-> previewDuration]

\* variant: the move stages the row the booking was taken from
StagedMoveStoredTable(b) ==
    LET existing == PendingGet(b.id)
    IN [time |-> previewPosition.time,
        table |-> normalizeTable(getEffectiveBooking(b).table),
        duration |-> OrNum(existing.duration, b.duration)]

\* variant: the move stages the duration of the snapshot
StagedMoveStoredDuration(b) ==
    [time |-> previewPosition.time,
     table |-> normalizeTable(previewPosition.table),
     duration |-> bookings[b.id].duration]

\* the entry a confirmed move stores for the selected booking
StagedMove(b) ==
    LET existing == PendingGet(b.id)
    IN [time |-> previewPosition.time,
        table |-> normalizeTable(previewPosition.table),
        duration |-> OrNum(existing.duration, b.duration)]

\* the update requests applyAll issues: one mutate per entry of the map
ApplyRequests(map) ==
    {[id |-> e.id,
      updates |-> [time |-> e.time, table |-> e.table, duration |-> e.duration]]
       : e \in map}

----------------------------------------------------------------------------
(* State changes shared by the handlers *)

\* variant: the resize edge survives the clearing
clearSelectionStateKeepsMode ==
    /\ selectedBooking' = NoBooking
    /\ clickOffsetPercent' = 0
    /\ selectedBookingWidth' = 0
    /\ previewPosition' = NoPreview
    /\ resizeMode' = resizeMode
    /\ resizeBooking' = NoBooking
    /\ previewDuration' = 0
    /\ previewTime' = EmptyTime

clearSelectionState ==
    /\ selectedBooking' = NoBooking
    /\ clickOffsetPercent' = 0
    /\ selectedBookingWidth' = 0
    /\ previewPosition' = NoPreview
    /\ resizeMode' = NoMode
    /\ resizeBooking' = NoBooking
    /\ previewDuration' = 0
    /\ previewTime' = EmptyTime

ClearHistory == lastPublished' = NoPreview

\* setResizeMode(side); setResizeBooking(booking); setPreviewDuration(...);
\* setPreviewTime(...) after clearSelectionState()
EnterResize(b, side) ==
    LET effective == getEffectiveBooking(b)
    IN /\ stagings < MaxStagings
       /\ UNCHANGED stagings
       /\ selectedBooking' = NoBooking
       /\ clickOffsetPercent' = 0
       /\ selectedBookingWidth' = 0
       /\ previewPosition' = NoPreview
       /\ resizeMode' = side
       /\ resizeBooking' = b
       /\ previewDuration' = effective.duration
       /\ previewTime' = effective.time
       /\ lastPublished' = NoPreview

\* the confirm branch shared by handleArrowClick, handleBookingClick and
\* handleRowClick
ConfirmResize(b) ==
    /\ pendingChanges' = MapSet(pendingChanges, b.id, StagedResize(b))
    /\ lastStaged' = RecordStaged(b.id, StagedResize(b))
    /\ clearSelectionState
    /\ ClearHistory
    /\ stagings' = stagings + 1

\* the confirm of handleRowClick's move branch
ConfirmMove(b) ==
    /\ pendingChanges' = MapSet(pendingChanges, b.id, StagedMove(b))
    /\ lastStaged' = RecordStaged(b.id, StagedMove(b))
    /\ clearSelectionState
    /\ ClearHistory
    /\ stagings' = stagings + 1

----------------------------------------------------------------------------
(* Initial state: the component mounted without initialTime, live, not in  *)
(* quick edit, with the bookings query delivered.                           *)

\* the values the clock is read at: (day, minute of day)
ClockValues == {<<0, 1380>>}

\* a table of the restaurant
FetchedTable(label, active) ==
    [table_number |-> label, is_active |-> active,
     min_capacity |-> 2, max_capacity |-> 4]

\* getTables: api.get("/api/tables", { params: { ..., is_active: true } })
getTables(all) == SelectSeq(all, LAMBDA t : t.is_active)

Stored(i, t, tb, d) == [id |-> i, time |-> t, table |-> tb, duration |-> d, date |-> Today]

\* the situations the behaviours start from: the anchor time (minute of day)
\* and the stored bookings, which overlap nowhere
Scenarios ==
    { \* late evening, the window 22:00 .. 05:00 runs past midnight; table "2"
      \* is out of use and still holds a booking; the tables query has
      \* delivered nothing (tablesData = [])
      [anchor |-> 1380,
       delivered |-> FALSE,
       stored |-> [i \in BookingIds |->
                     IF i = 1 THEN Stored(1, <<23, 0>>, "1", 90)
                              ELSE Stored(2, <<23, 30>>, "2", 240)],
       tables |-> <<FetchedTable("1", TRUE), FetchedTable("2", FALSE)>>],
      \* just after midnight, the window starts at 00:00; the tables are fetched
      [anchor |-> 60,
       delivered |-> TRUE,
       stored |-> [i \in BookingIds |->
                     IF i = 1 THEN Stored(1, <<0, 0>>, "1", 30)
                              ELSE Stored(2, <<1, 0>>, "2", 90)],
       tables |-> <<FetchedTable("1", TRUE), FetchedTable("2", TRUE)>>] }

InitCalendar ==
    /\ NoPreviewCalendar
    /\ SignedIn
    /\ isQuickEdit = FALSE
    /\ pendingChanges = EmptyMap
    /\ selectedBooking = NoBooking
    /\ clickOffsetPercent = 0
    /\ selectedBookingWidth = 0
    /\ previewPosition = NoPreview
    /\ resizeMode = NoMode
    /\ resizeBooking = NoBooking
    /\ previewDuration = 0
    /\ previewTime = EmptyTime
    /\ \E sc \in Scenarios :
          /\ currentTime = IF initialTime = NoInitialTime THEN sc.anchor
                           ELSE initialTime[2]
          /\ server = sc.stored
          /\ serverTables = sc.tables
          /\ tablesData = IF sc.delivered THEN getTables(sc.tables) ELSE <<>>
    /\ timeInputValue = FormatText(currentTime)
    /\ anchorDay = IF initialTime = NoInitialTime THEN Today ELSE initialTime[1]
    /\ selectedDate = anchorDay
    /\ isLive = (initialTime = NoInitialTime)
    /\ bookings = server
    /\ inflight = EmptyBag
    /\ refetchPending = FALSE
    /\ lastPublished = NoPreview
    /\ lastStaged = NothingStaged
    /\ applyCount = 0
    /\ stagings = 0
    /\ navSteps = 0
    /\ query = NoQuery
    /\ answer = NoAnswer
    /\ slotEffect = NoSlotEffect
    /\ restaurant = NoRestaurant
    /\ submitResult = NoSubmit

\* the grid mounted on the dashboard, without the onSlotClick prop
Init ==
    /\ initialTime = NoInitialTime
    /\ InitCalendar
    /\ onSlotClick = FALSE

----------------------------------------------------------------------------
(* The quick-edit handlers *)

\* select for moving: the middle-click branch of handleBookingClick
SelectForMove(b, g) ==
    LET effective == getEffectiveBooking(b)
    IN /\ stagings < MaxStagings
       /\ UNCHANGED stagings
       /\ selectedBooking' = b
       /\ clickOffsetPercent' = g
       /\ selectedBookingWidth' = effective.duration
       /\ previewPosition' = [table |-> normalizeTable(effective.table),
                              time |-> effective.time,
                              leftPercent |-> getBookingPosition(effective)]
       /\ resizeMode' = NoMode
       /\ resizeBooking' = NoBooking
       /\ previewDuration' = 0
       /\ previewTime' = EmptyTime
       /\ ClearHistory

\* variant: a click on the selected block confirms the move
handleBookingClickStaging(id, zone, g) ==
    LET b == bookings[id]
    IN /\ IsRendered(b)
       /\ ~isOtherSelected(b)
       /\ UNCHANGED <<availVars, isQuickEdit, viewVars, netVars, applyCount>>
       /\ IF ~isQuickEdit
          THEN UNCHANGED <<pendingChanges, selVars, histVars, stagings, lastStaged>>
          ELSE IF resizeBooking # NoBooking /\ resizeMode # NoMode
          THEN ConfirmResize(resizeBooking)
          ELSE IF selectedBooking.id = b.id
          THEN ConfirmMove(selectedBooking)
          ELSE IF zone \in {"left", "right"}
          THEN EnterResize(b, zone) /\ UNCHANGED <<pendingChanges, lastStaged>>
          ELSE SelectForMove(b, g) /\ UNCHANGED <<pendingChanges, lastStaged>>

\* onClick of a booking block -> handleBookingClick(e, booking); zone is where
\* the click falls in the block: "left"/"right" edge zone or "middle"
handleBookingClick(id, zone, g) ==
    LET b == bookings[id]
    IN /\ IsRendered(b)
       /\ ~isOtherSelected(b)
       /\ UNCHANGED <<availVars, isQuickEdit, viewVars, netVars, applyCount>>
       /\ IF ~isQuickEdit
          THEN \* navigate(`/booking/${id}`)
               UNCHANGED <<pendingChanges, selVars, histVars, stagings, lastStaged>>
          ELSE IF resizeBooking # NoBooking /\ resizeMode # NoMode
          THEN ConfirmResize(resizeBooking)
          ELSE IF selectedBooking.id = b.id
          THEN /\ clearSelectionState
               /\ ClearHistory
               /\ UNCHANGED <<pendingChanges, stagings, lastStaged>>
          ELSE IF zone \in {"left", "right"}
          THEN EnterResize(b, zone) /\ UNCHANGED <<pendingChanges, lastStaged>>
          ELSE SelectForMove(b, g) /\ UNCHANGED <<pendingChanges, lastStaged>>

\* variant: a click on the opposite edge starts the resize afresh
handleArrowClickSwitchResets(id, side) ==
    LET b == bookings[id]
    IN /\ isQuickEdit
       /\ selectedBooking = NoBooking
       /\ IsRendered(b)
       /\ ~isOtherSelected(b)
       /\ UNCHANGED <<availVars, isQuickEdit, viewVars, netVars, applyCount>>
       /\ IF resizeBooking.id = b.id /\ resizeMode = side
          THEN ConfirmResize(b)
          ELSE EnterResize(b, side) /\ UNCHANGED <<pendingChanges, lastStaged>>

\* onClick of a resize arrow -> handleArrowClick(e, booking, side); the arrows
\* are rendered when isQuickEdit && !selectedBooking
handleArrowClick(id, side) ==
    LET b == bookings[id]
    IN /\ isQuickEdit
       /\ selectedBooking = NoBooking
       /\ IsRendered(b)
       /\ ~isOtherSelected(b)
       /\ UNCHANGED <<availVars, isQuickEdit, viewVars, netVars, applyCount>>
       /\ IF resizeBooking.id = b.id /\ resizeMode = side
          THEN ConfirmResize(b)
          ELSE IF resizeBooking.id = b.id /\ resizeMode # NoMode /\ resizeMode # side
          THEN /\ resizeMode' = side
               /\ UNCHANGED <<pendingChanges, selectedBooking, clickOffsetPercent,
                              selectedBookingWidth, previewPosition, resizeBooking,
                              previewDuration, previewTime, lastPublished, stagings,
                              lastStaged>>
          ELSE EnterResize(b, side) /\ UNCHANGED <<pendingChanges, lastStaged>>

\* onMouseMove of a table row -> handleMouseMove(e, targetTable, row)
handleMouseMove(targetTable, p) ==
    /\ UNCHANGED <<availVars, isQuickEdit, pendingChanges, viewVars, netVars, countVars>>
    /\ IF resizeBooking # NoBooking /\ resizeMode # NoMode
       THEN LET existing == PendingGet(resizeBooking.id)
                curTime == OrStr(previewTime, OrStr(existing.time, resizeBooking.time))
                curDuration == IF previewDuration > 0 THEN previewDuration
                               ELSE OrNum(existing.duration, resizeBooking.duration)
                new == ResizePreview(resizeMode, curTime, curDuration,
                                     SnappedMouseMinutes(p))
            IN /\ ParseMinutes(new.time) >= 0 - MaxDrift
               /\ previewDuration' = new.duration
               /\ previewTime' = new.time
               /\ UNCHANGED <<selectedBooking, clickOffsetPercent,
                              selectedBookingWidth, previewPosition, resizeMode,
                              resizeBooking, histVars>>
       ELSE IF selectedBooking = NoBooking
       THEN UNCHANGED <<selVars, histVars>>
       ELSE /\ previewPosition' = MovePreview(p, targetTable)
            /\ lastPublished' = MovePreview(p, targetTable)
            /\ UNCHANGED <<selectedBooking, clickOffsetPercent, selectedBookingWidth,
                           resizeMode, resizeBooking, previewDuration, previewTime>>

\* onClick of a table row -> handleRowClick(e, targetTable, row)
handleRowClick(targetTable) ==
    /\ UNCHANGED <<availVars, isQuickEdit, viewVars, netVars, applyCount>>
    /\ IF ~isQuickEdit
       THEN UNCHANGED <<pendingChanges, selVars, histVars, stagings, lastStaged>>
       ELSE IF resizeBooking # NoBooking /\ resizeMode # NoMode
       THEN ConfirmResize(resizeBooking)
       ELSE IF selectedBooking = NoBooking \/ previewPosition = NoPreview
       THEN UNCHANGED <<pendingChanges, selVars, histVars, stagings, lastStaged>>
       ELSE ConfirmMove(selectedBooking)

\* variant: Escape confirms the gesture in progress
handleKeyDownStaging ==
    /\ UNCHANGED <<availVars, isQuickEdit, viewVars, netVars, applyCount>>
    /\ IF resizeBooking # NoBooking /\ resizeMode # NoMode
       THEN ConfirmResize(resizeBooking)
       ELSE IF selectedBooking # NoBooking /\ previewPosition # NoPreview
       THEN ConfirmMove(selectedBooking)
       ELSE UNCHANGED <<pendingChanges, selVars, histVars, stagings, lastStaged>>

\* variant: Escape sends what is staged
handleKeyDownSending ==
    /\ inflight' = inflight (+) SetToBag(ApplyRequests(pendingChanges))
    /\ UNCHANGED <<availVars, isQuickEdit, pendingChanges, viewVars, bookings, server,
                   refetchPending, countVars>>
    /\ IF selectedBooking # NoBooking \/ resizeBooking # NoBooking
       THEN clearSelectionState /\ ClearHistory
       ELSE UNCHANGED <<selVars, histVars>>

\* keydown listener: Escape
handleKeyDown ==
    /\ UNCHANGED <<availVars, isQuickEdit, pendingChanges, viewVars, netVars, countVars>>
    /\ IF selectedBooking # NoBooking \/ resizeBooking # NoBooking
       THEN clearSelectionState /\ ClearHistory
       ELSE UNCHANGED <<selVars, histVars>>

\* variant: turning quick edit off keeps what is staged
toggleQuickEditKeepsPending ==
    /\ UNCHANGED <<availVars, viewVars, netVars, applyCount, stagings>>
    /\ IF isQuickEdit
       THEN /\ UNCHANGED <<pendingChanges, lastStaged>>
            /\ clearSelectionState
            /\ ClearHistory
       ELSE UNCHANGED <<pendingChanges, selVars, histVars, lastStaged>>
    /\ isQuickEdit' = ~isQuickEdit

toggleQuickEdit ==
    /\ UNCHANGED <<availVars, viewVars, netVars, applyCount, stagings>>
    /\ IF isQuickEdit
       THEN /\ pendingChanges' = EmptyMap
            /\ lastStaged' = NothingStaged
            /\ clearSelectionState
            /\ ClearHistory
       ELSE UNCHANGED <<pendingChanges, selVars, histVars, lastStaged>>
    /\ isQuickEdit' = ~isQuickEdit

\* the Quick Edit button, rendered while quick edit is off
QuickEditButton ==
    /\ ~isQuickEdit
    /\ toggleQuickEdit

\* variant: Cancel leaves quick edit and keeps what is staged
handleCancelQuickEditKeepsPending ==
    /\ isQuickEdit
    /\ UNCHANGED <<availVars, viewVars, netVars, applyCount, stagings>>
    /\ UNCHANGED <<pendingChanges, lastStaged>>
    /\ clearSelectionState
    /\ ClearHistory
    /\ isQuickEdit' = FALSE

\* the Cancel button, rendered while quick edit is on
handleCancelQuickEdit ==
    /\ isQuickEdit
    /\ UNCHANGED <<availVars, viewVars, netVars, applyCount, stagings>>
    /\ pendingChanges' = EmptyMap
    /\ lastStaged' = NothingStaged
    /\ clearSelectionState
    /\ ClearHistory
    /\ isQuickEdit' = FALSE

\* variant: Apply leaves the gesture in progress as it is
handleApplyQuickEditKeepsSelection ==
    /\ isQuickEdit
    /\ pendingChanges # EmptyMap =>
          /\ applyCount < MaxApply
          /\ BagCardinality(inflight) + Cardinality(pendingChanges) <= MaxInFlight
    /\ inflight' = inflight (+) SetToBag(ApplyRequests(pendingChanges))
    /\ applyCount' = IF pendingChanges # EmptyMap THEN applyCount + 1 ELSE applyCount
    /\ pendingChanges' = EmptyMap
    /\ lastStaged' = NothingStaged
    /\ ClearHistory
    /\ isQuickEdit' = FALSE
    /\ UNCHANGED <<availVars, viewVars, bookings, server, refetchPending, stagings,
                   selVars>>

\* variant: Apply confirms the gesture in progress before it sends
handleApplyQuickEditStagesPreview ==
    LET staged ==
          IF resizeBooking # NoBooking /\ resizeMode # NoMode
          THEN MapSet(pendingChanges, resizeBooking.id, StagedResize(resizeBooking))
          ELSE IF selectedBooking # NoBooking /\ previewPosition # NoPreview
          THEN MapSet(pendingChanges, selectedBooking.id, StagedMove(selectedBooking))
          ELSE pendingChanges
    IN /\ isQuickEdit
       /\ staged # EmptyMap =>
             /\ applyCount < MaxApply
             /\ BagCardinality(inflight) + Cardinality(staged) <= MaxInFlight
       /\ inflight' = inflight (+) SetToBag(ApplyRequests(staged))
       /\ applyCount' = IF staged # EmptyMap THEN applyCount + 1 ELSE applyCount
       /\ pendingChanges' = EmptyMap
       /\ lastStaged' = NothingStaged
       /\ clearSelectionState
       /\ ClearHistory
       /\ isQuickEdit' = FALSE
       /\ UNCHANGED <<availVars, viewVars, bookings, server, refetchPending, stagings>>

\* the Apply button, rendered while quick edit is on
handleApplyQuickEdit ==
    /\ isQuickEdit
    /\ pendingChanges # EmptyMap =>
          /\ applyCount < MaxApply
          /\ BagCardinality(inflight) + Cardinality(pendingChanges) <= MaxInFlight
    /\ inflight' = inflight (+) SetToBag(ApplyRequests(pendingChanges))
    /\ applyCount' = IF pendingChanges # EmptyMap THEN applyCount + 1 ELSE applyCount
    /\ pendingChanges' = EmptyMap
    /\ lastStaged' = NothingStaged
    /\ clearSelectionState
    /\ ClearHistory
    /\ isQuickEdit' = FALSE
    /\ UNCHANGED <<availVars, viewVars, bookings, server, refetchPending, stagings>>

----------------------------------------------------------------------------
(* The update collaborator and the bookings query *)

\* variant: an accepted update does not invalidate the bookings query
UpdateSucceedsWithoutInvalidate(req) ==
    /\ BagIn(req, inflight)
    /\ inflight' = inflight (-) SetToBag({req})
    /\ server' = [server EXCEPT ![req.id] =
                     [@ EXCEPT !.time = req.updates.time,
                               !.table = req.updates.table,
                               !.duration = req.updates.duration]]
    /\ UNCHANGED <<availVars, isQuickEdit, pendingChanges, selVars, viewVars, bookings,
                   refetchPending, histVars, countVars>>

\* updateBooking(id, updates) answered: the stored booking takes the updates;
\* onSuccess invalidates the bookings query
UpdateSucceeds(req) ==
    /\ BagIn(req, inflight)
    /\ inflight' = inflight (-) SetToBag({req})
    /\ server' = [server EXCEPT ![req.id] =
                     [@ EXCEPT !.time = req.updates.time,
                               !.table = req.updates.table,
                               !.duration = req.updates.duration]]
    /\ refetchPending' = TRUE
    /\ UNCHANGED <<availVars, isQuickEdit, pendingChanges, selVars, viewVars, bookings,
                   histVars, countVars>>

\* updateBooking(id, updates) rejected: no onSuccess, nothing else happens
UpdateFails(req) ==
    /\ BagIn(req, inflight)
    /\ inflight' = inflight (-) SetToBag({req})
    /\ UNCHANGED <<availVars, isQuickEdit, pendingChanges, selVars, viewVars, bookings,
                   server, refetchPending, histVars, countVars>>

\* the refetch of the invalidated ['bookings'] query delivers the snapshot
Refetch ==
    /\ refetchPending
    /\ bookings' = server
    /\ refetchPending' = FALSE
    /\ UNCHANGED <<availVars, isQuickEdit, pendingChanges, selVars, viewVars, server,
                   inflight, histVars, countVars>>

----------------------------------------------------------------------------
(* View navigation and the live clock *)

handlePreviousHour ==
    LET t == anchorDay * 1440 + currentTime - 60
    IN /\ navSteps' = navSteps + 1
       /\ isLive' = FALSE
       /\ currentTime' = t % 1440
       /\ anchorDay' = t \div 1440
       /\ timeInputValue' = FormatText(t % 1440)
       /\ UNCHANGED <<availVars, isQuickEdit, pendingChanges, selVars, selectedDate, netVars,
                      histVars, countVars>>

handleNextHour ==
    LET t == anchorDay * 1440 + currentTime + 60
    IN /\ navSteps' = navSteps + 1
       /\ isLive' = FALSE
       /\ currentTime' = t % 1440
       /\ anchorDay' = t \div 1440
       /\ timeInputValue' = FormatText(t % 1440)
       /\ UNCHANGED <<availVars, isQuickEdit, pendingChanges, selVars, selectedDate, netVars,
                      histVars, countVars>>

handlePreviousDay ==
    /\ navSteps' = navSteps + 1
    /\ isLive' = FALSE
    /\ selectedDate' = selectedDate - 1
    /\ UNCHANGED <<availVars, isQuickEdit, pendingChanges, selVars, currentTime, anchorDay,
                   timeInputValue, netVars, histVars, countVars>>

handleNextDay ==
    /\ navSteps' = navSteps + 1
    /\ isLive' = FALSE
    /\ selectedDate' = selectedDate + 1
    /\ UNCHANGED <<availVars, isQuickEdit, pendingChanges, selVars, currentTime, anchorDay,
                   timeInputValue, netVars, histVars, countVars>>

\* onSelect of the date picker
onSelect(newDate) ==
    /\ navSteps' = navSteps + 1
    /\ isLive' = FALSE
    /\ selectedDate' = newDate
    /\ UNCHANGED <<availVars, isQuickEdit, pendingChanges, selVars, currentTime, anchorDay,
                   timeInputValue, netVars, histVars, countVars>>

\* variant: the parent's new initialTime moves the view and leaves live
\* tracking as it is
initialTimeEffectKeepsLive(t) ==
    /\ initialTime # NoInitialTime
    /\ t # initialTime
    /\ navSteps' = navSteps + 1
    /\ initialTime' = t
    /\ currentTime' = t[2]
    /\ anchorDay' = t[1]
    /\ timeInputValue' = FormatText(t[2])
    /\ selectedDate' = t[1]
    /\ UNCHANGED <<tablesData, query, answer, onSlotClick, slotEffect, restaurant,
                   submitResult, serverTables, initialTable, previewTableState,
                   previewTimeState, calendarViewTime, isInitialized, effectDeps,
                   authVars,
                   isLive, isQuickEdit, pendingChanges, selVars, netVars, histVars,
                   countVars>>

\* the parent renders the grid with another initialTime and the effect on
\* [initialTime] runs
initialTimeEffect(t) ==
    /\ initialTime # NoInitialTime
    /\ t # initialTime
    /\ navSteps' = navSteps + 1
    /\ initialTime' = t
    /\ currentTime' = t[2]
    /\ anchorDay' = t[1]
    /\ timeInputValue' = FormatText(t[2])
    /\ selectedDate' = t[1]
    /\ isLive' = FALSE
    /\ UNCHANGED <<tablesData, query, answer, onSlotClick, slotEffect, restaurant,
                   submitResult, serverTables, initialTable, previewTableState,
                   previewTimeState, calendarViewTime, isInitialized, effectDeps,
                   authVars,
                   isQuickEdit, pendingChanges, selVars, netVars, histVars, countVars>>

\* the Live button; now is what new Date() reads: (day, minute of day)
toggleLive(now) ==
    /\ navSteps' = navSteps + 1
    /\ IF ~isLive
       THEN /\ currentTime' = now[2]
            /\ anchorDay' = now[1]
            /\ timeInputValue' = FormatText(now[2])
       ELSE UNCHANGED <<currentTime, anchorDay, timeInputValue>>
    /\ isLive' = ~isLive
    /\ UNCHANGED <<availVars, isQuickEdit, pendingChanges, selVars, selectedDate, netVars,
                   histVars, countVars>>

\* variant: the timer sets the anchor whether live tracking is on or not
LiveTickAlways(now) ==
    /\ currentTime' = now[2]
    /\ anchorDay' = now[1]
    /\ timeInputValue' = FormatText(now[2])
    /\ UNCHANGED <<availVars, isQuickEdit, pendingChanges, selVars, selectedDate, isLive,
                   navSteps, netVars, histVars, countVars>>

\* the setInterval callback of the minute timer; now is what new Date() reads
LiveTick(now) ==
    /\ IF isLive
       THEN /\ currentTime' = now[2]
            /\ anchorDay' = now[1]
            /\ timeInputValue' = FormatText(now[2])
       ELSE UNCHANGED <<currentTime, anchorDay, timeInputValue>>
    /\ UNCHANGED <<availVars, isQuickEdit, pendingChanges, selVars, selectedDate, isLive,
                   navSteps, netVars, histVars, countVars>>

\* onChange of the time input: the text typed
handleTimeChange(text) ==
    /\ navSteps' = navSteps + 1
    /\ isLive' = FALSE
    /\ timeInputValue' = text
    /\ UNCHANGED <<availVars, isQuickEdit, pendingChanges, selVars, currentTime, anchorDay,
                   selectedDate, netVars, histVars, countVars>>

\* variant: the pattern tests the shape of the text and not the ranges
handleTimeSubmitAnyDigits ==
    /\ IF /\ Len(timeInputValue) \in {4, 5}
          /\ timeInputValue[Len(timeInputValue) - 2] = ":"
          /\ \A j \in (1..Len(timeInputValue)) \ {Len(timeInputValue) - 2} :
                IsDigit(timeInputValue[j])
       THEN LET newTime == SplitHours(timeInputValue) * 60 + SplitMinutes(timeInputValue)
            IN /\ currentTime' = newTime % 1440
               /\ anchorDay' = anchorDay + newTime \div 1440
               /\ timeInputValue' = FormatText(newTime % 1440)
       ELSE /\ timeInputValue' = FormatText(currentTime)
            /\ UNCHANGED <<currentTime, anchorDay>>
    /\ UNCHANGED <<availVars, isQuickEdit, pendingChanges, selVars, selectedDate,
                   isLive, navSteps, netVars, histVars, countVars>>

\* onBlur / Enter of the time input
handleTimeSubmit ==
    /\ IF timeRegexTest(timeInputValue)
       THEN LET newTime == SplitHours(timeInputValue) * 60 + SplitMinutes(timeInputValue)
            IN /\ currentTime' = newTime
               /\ timeInputValue' = FormatText(newTime)
       ELSE /\ timeInputValue' = FormatText(currentTime)
            /\ UNCHANGED currentTime
    /\ UNCHANGED <<availVars, isQuickEdit, pendingChanges, selVars, anchorDay, selectedDate,
                   isLive, navSteps, netVars, histVars, countVars>>

----------------------------------------------------------------------------
\* the gestures of the quick-edit engine, with the pointer at positions P
EngineStep(P) ==
    \/ \E id \in BookingIds, zone \in {"left", "right", "middle"}, g \in GrabOffsets :
          /\ g < 2 * bookings[id].duration
          /\ handleBookingClick(id, zone, g)
    \/ \E id \in BookingIds, side \in {"left", "right"} : handleArrowClick(id, side)
    \/ \E t \in TableNumbers, p \in P : handleMouseMove(t, p)
    \/ \E t \in TableNumbers : handleRowClick(t)
    \/ handleKeyDown
    \/ QuickEditButton
    \/ handleCancelQuickEdit
    \/ handleApplyQuickEdit

NetStep ==
    \/ \E req \in BagToSet(inflight) : UpdateSucceeds(req)
    \/ \E req \in BagToSet(inflight) : UpdateFails(req)
    \/ Refetch

\* the view navigation with at most limit steps, and the minute timer; the
\* clock is read at one of the values of clocks
ViewStep(limit, clocks) ==
    \/ navSteps < limit /\ handlePreviousHour
    \/ navSteps < limit /\ handleNextHour
    \/ navSteps < limit /\ handlePreviousDay
    \/ navSteps < limit /\ handleNextDay
    \/ \E now \in clocks : navSteps < limit /\ toggleLive(now)
    \/ \E now \in clocks : LiveTick(now)

\* the quick-edit engine and the update collaborator, the view left where it is
Next == EngineStep(PointerPositions) \/ NetStep

Spec == Init /\ [][Next]_vars

\* the same with view navigation and the live clock
NextAll == EngineStep(NavPointerPositions) \/ NetStep \/ ViewStep(MaxNav, ClockValues)

SpecAll == Init /\ [][NextAll]_vars

----------------------------------------------------------------------------
(* The engine up to the first applyAll that sends something, with every    *)
(* update accepted by the backend and no edit made afterwards.  Each update *)
(* request is answered in the end, and an invalidated bookings query is     *)
(* refetched in the end.                                                    *)

NextLive ==
    \/ applyCount = 0 /\ EngineStep(NavPointerPositions)
    \/ \E req \in BagToSet(inflight) : UpdateSucceeds(req)
    \/ Refetch

SpecLive ==
    /\ Init
    /\ [][NextLive]_vars
    /\ WF_vars(\E req \in BagToSet(inflight) : UpdateSucceeds(req))
    /\ WF_vars(Refetch)

----------------------------------------------------------------------------
(* The view alone: navigation, the live clock, the time input and the      *)
(* half-hour slots of the rows, with quick edit switched on and off and no *)
(* gesture made.                                                            *)

\* the values of the initialTime prop: (day, minute of day)
InitialTimes == {<<0, 1380>>, <<1, 30>>}

\* the values the clock is read at while the view is followed
ViewClockValues == {<<0, 1380>>, <<0, 1395>>, <<1, 5>>}

\* the texts typed into the time input
TypedTexts ==
    { <<"0", "7", ":", "3", "0">>, <<"7", ":", "3", "0">>,
      <<"2", "4", ":", "0", "0">>, <<"1", "2", ":", "6", "0">>,
      <<"9", ":", "5">>, <<"a", "b", ":", "c", "d">>, <<>>,
      <<"2", "3", ":", "5", "9">> }

\* slots: the index i of slots[i] runs over 0 .. totalSlots - 1
totalSlots == (WINDOW_HOURS_PREV + WINDOW_HOURS_NEXT) * 2 + 4

\* differenceInMinutes(slot.time, viewStart), slot.time being
\* addHours(startOfHour(viewStart), i * 0.5)
slotDiff(i) == 30 * i - (viewStartMinutes % 60)

\* slot.time as minutes after midnight of day 0
slotInstant(i) == selectedDate * 1440 + viewStartMinutes + slotDiff(i)

\* the slot is rendered: not (slot.position + width < 0 || slot.position > 100)
slotRendered(i) ==
    ~(slotDiff(i) + 30 < 0 \/ slotDiff(i) > TOTAL_WINDOW_MINUTES)

\* variant: the click navigates whether or not the parent gave a callback
handleSlotClickAlwaysNavigates(tableNumber, i) ==
    /\ ~isQuickEdit
    /\ slotRendered(i)
    /\ slotEffect = NoSlotEffect
    /\ slotEffect' = [callback |-> onSlotClick, navigate |-> TRUE,
                      date |-> slotInstant(i) \div 1440,
                      time |-> FormatHHmm(slotInstant(i) % 1440),
                      table |-> tableNumber]
    /\ UNCHANGED <<calendarVars, bookings, server, tablesData, query, answer, onSlotClick, previewVars, authVars,
                   restaurant, submitResult, serverTables>>

\* onClick of a slot of the row of tableNumber; the first click is followed
handleSlotClick(tableNumber, i) ==
    /\ ~isQuickEdit
    /\ slotRendered(i)
    /\ slotEffect = NoSlotEffect
    /\ slotEffect' = [callback |-> onSlotClick, navigate |-> ~onSlotClick,
                      date |-> slotInstant(i) \div 1440,
                      time |-> FormatHHmm(slotInstant(i) % 1440),
                      table |-> tableNumber]
    /\ UNCHANGED <<calendarVars, bookings, server, tablesData, query, answer, onSlotClick, previewVars, authVars,
                   restaurant, submitResult, serverTables>>

\* the grid with or without the onSlotClick prop
InitView ==
    /\ initialTime \in {NoInitialTime, <<Today, 1380>>}
    /\ InitCalendar
    /\ onSlotClick \in BOOLEAN

\* the days picked in the date picker
PickedDates == {Today - 1, Today + 1}

NextView ==
    \/ ViewStep(MaxViewNav, ViewClockValues)
    \/ \E newDate \in PickedDates : navSteps < MaxViewNav /\ onSelect(newDate)
    \/ \E t \in InitialTimes : navSteps < MaxViewNav /\ initialTimeEffect(t)
    \/ \E text \in TypedTexts : navSteps < MaxViewNav /\ handleTimeChange(text)
    \/ handleTimeSubmit
    \/ \E tableNumber \in TableNumbers, i \in 0..(totalSlots - 1) :
          handleSlotClick(tableNumber, i)
    \/ QuickEditButton
    \/ handleCancelQuickEdit

SpecView == InitView /\ [][NextView]_vars

----------------------------------------------------------------------------
(* The availability resolvers: checkAvailability of the new-booking        *)
(* calendar and availableTables of the booking form.  Both read the fetched *)
(* tables and bookings; a result of checkAvailability is the record         *)
(* [ok, table]: ok is the boolean of the single-table branch (or "a table   *)
(* was found"), table the label of the first-available branch ("" = null).  *)

TableLabels == {"1", "2", "10"}

\* the characters of a table label
Chars(label) ==
    CASE label = "1" -> <<1>>
      [] label = "2" -> <<2>>
      [] label = "10" -> <<1, 0>>
      [] OTHER -> <<>>

\* the number a run of digits stands for
RECURSIVE NumberOf(_)
NumberOf(c) ==
    IF c = <<>> THEN 0
    ELSE 10 * NumberOf(SubSeq(c, 1, Len(c) - 1)) + c[Len(c)]

\* comparison character by character
RECURSIVE CompareChars(_, _)
CompareChars(a, b) ==
    IF a = <<>> /\ b = <<>> THEN 0
    ELSE IF a = <<>> THEN 0 - 1
    ELSE IF b = <<>> THEN 1
    ELSE IF a[1] < b[1] THEN 0 - 1
    ELSE IF a[1] > b[1] THEN 1
    ELSE CompareChars(Tail(a), Tail(b))

\* variant: the labels are compared as plain strings
localeCompareByCharacter(a, b) == CompareChars(Chars(a), Chars(b))

\* a.localeCompare(b, undefined, { numeric: true }) on labels made of digits
localeCompare(a, b) ==
    IF NumberOf(Chars(a)) < NumberOf(Chars(b)) THEN 0 - 1
    ELSE IF NumberOf(Chars(a)) > NumberOf(Chars(b)) THEN 1
    ELSE 0

\* Array.prototype.sort with that comparison (stable): x is put behind the
\* elements of the sorted s that do not come after it
RECURSIVE InsertSorted(_, _)
InsertSorted(x, s) ==
    IF s = <<>> THEN <<x>>
    ELSE IF localeCompare(s[1].table_number, x.table_number) <= 0
    THEN <<s[1]>> \o InsertSorted(x, Tail(s))
    ELSE <<x>> \o s

RECURSIVE SortTables(_)
SortTables(s) ==
    IF s = <<>> THEN <<>>
    ELSE InsertSorted(s[Len(s)], SortTables(SubSeq(s, 1, Len(s) - 1)))

\* variant: intervals that only touch count as a conflict
hasConflictTouching(startMinutes, endMinutes, dateStr, tableNumber) ==
    \E i \in BookingIds :
       /\ bookings[i].date = dateStr
       /\ bookings[i].table = tableNumber
       /\ LET existingStartMinutes == ParseMinutes(bookings[i].time)
              existingEndMinutes == existingStartMinutes + bookings[i].duration
          IN startMinutes <= existingEndMinutes /\ endMinutes >= existingStartMinutes

\* tableBookings.some(...) of checkAvailability
hasConflict(startMinutes, endMinutes, dateStr, tableNumber) ==
    \E i \in BookingIds :
       /\ bookings[i].date = dateStr
       /\ bookings[i].table = tableNumber
       /\ LET existingStartMinutes == ParseMinutes(bookings[i].time)
              existingEndMinutes == existingStartMinutes + bookings[i].duration
          IN startMinutes < existingEndMinutes /\ endMinutes > existingStartMinutes

\* the least element of a set of indices, 0 for the empty set
FirstIndex(indices) ==
    IF indices = {} THEN 0
    ELSE CHOOSE k \in indices : \A j \in indices : k <= j

\* checkAvailability(checkTime, checkDate, checkTable) with the props
\* duration and guests of the query
checkAvailability(checkTime, checkDate, checkTable) ==
    LET startMinutes == ParseMinutes(checkTime)
        endMinutes == startMinutes + query.duration
    IN IF checkTable # NoTable
       THEN LET found == FirstIndex({k \in 1..Len(tablesData) :
                                       tablesData[k].table_number = checkTable})
                canAccommodate ==
                    /\ found # 0
                    /\ tablesData[found].is_active
                    /\ tablesData[found].max_capacity >= query.guests
            IN [ok |-> ~hasConflict(startMinutes, endMinutes, checkDate, checkTable)
                          /\ canAccommodate,
                table |-> NoTable]
       ELSE LET qualifying ==
                    SortTables(SelectSeq(tablesData,
                       LAMBDA t : t.is_active /\ t.max_capacity >= query.guests))
                free == FirstIndex({k \in 1..Len(qualifying) :
                           ~hasConflict(startMinutes, endMinutes, checkDate,
                                        qualifying[k].table_number)})
            IN IF free = 0 THEN [ok |-> FALSE, table |-> NoTable]
               ELSE [ok |-> TRUE, table |-> qualifying[free].table_number]

\* tableBookings.some(...) of the form's availableTables
formHasConflict(bookingStartMinutes, bookingEndMinutes, selectedDateStr, tableNumber) ==
    \E i \in BookingIds :
       /\ bookings[i].date = selectedDateStr
       /\ bookings[i].table = tableNumber
       /\ LET existingStartMinutes == ParseMinutes(bookings[i].time)
              existingEndMinutes == existingStartMinutes + bookings[i].duration
          IN /\ bookingStartMinutes < existingEndMinutes
             /\ bookingEndMinutes > existingStartMinutes

\* availableTables of the booking form, for the watched date, time and
\* duration and the guests field of the query
availableTables ==
    IF Len(tablesData) = 0 THEN <<>>
    ELSE IF query.time = EmptyTime THEN <<>>
    ELSE LET bookingStartMinutes == ParseMinutes(query.time)
             bookingEndMinutes == bookingStartMinutes + query.duration
             watchedGuests == query.guests
             active == SelectSeq(tablesData, LAMBDA t : t.is_active)
             fitting == SelectSeq(active,
                           LAMBDA t : IF watchedGuests = 0 THEN TRUE
                                      ELSE /\ t.min_capacity <= watchedGuests
                                           /\ t.max_capacity >= watchedGuests)
             free == SelectSeq(fitting,
                        LAMBDA t : ~formHasConflict(bookingStartMinutes,
                                       bookingEndMinutes, query.date, t.table_number))
         IN [k \in 1..Len(free) |-> free[k].table_number]

\* the fetched tables the questions are asked over: the order of the list,
\* which tables are active, and the capacity range of table "1"
TableOrders == {<<"2", "10", "1">>, <<"10", "1", "2">>}
CapacityOf(label, small) ==
    CASE label = "1" -> IF small THEN <<1, 2>> ELSE <<4, 6>>
      [] label = "2" -> <<2, 4>>
      [] OTHER -> <<1, 8>>
TableLists ==
    { [k \in 1..3 |->
         [table_number |-> order[k],
          is_active |-> order[k] \in activeLabels,
          min_capacity |-> CapacityOf(order[k], small)[1],
          max_capacity |-> CapacityOf(order[k], small)[2]]]
      : order \in TableOrders, activeLabels \in SUBSET TableLabels,
        small \in BOOLEAN }

\* the fetched bookings: 18:00-19:30 on table "1" or "2", and 19:30-20:30 on
\* table "1" or "10" of the same or the next day
BookingLists ==
    { [i \in BookingIds |->
         IF i = 1 THEN Stored(1, <<18, 0>>, t1, 90)
         ELSE [Stored(2, <<19, 30>>, t2, 60) EXCEPT !.date = d2]]
      : t1 \in {"1", "2"}, t2 \in {"1", "10"}, d2 \in {Today, Today + 1} }

\* the questions: 17:00 and 19:30 touch the first booking, 18:30 falls in it
Queries ==
    [time : {<<17, 0>>, <<18, 30>>, <<19, 30>>}, date : {Today},
     duration : {60, 90}, guests : {0, 2, 5}, table : TableLabels]

\* the restaurant of the form: none selected, one without operating hours,
\* one closed on the watched day, one open from 17:00 to 19:00
Restaurants ==
    { NoRestaurant,
      [NoRestaurant EXCEPT !.present = TRUE],
      [NoRestaurant EXCEPT !.present = TRUE, !.hasHours = TRUE],
      [present |-> TRUE, hasHours |-> TRUE, dayOpen |-> TRUE,
       open |-> <<17, 0>>, close |-> <<19, 0>>] }

\* for (minutes = openMinutes; minutes < closeMinutes; minutes += 30) slots.push(...)
RECURSIVE SlotsFrom(_, _)
SlotsFrom(minutes, closeMinutes) ==
    IF minutes < closeMinutes
    THEN <<FormatMinutes(minutes)>> \o SlotsFrom(minutes + 30, closeMinutes)
    ELSE <<>>

\* availableTimeSlots of the booking form, for the watched date
availableTimeSlots ==
    IF ~restaurant.present THEN <<>>
    ELSE IF ~restaurant.hasHours
         THEN [i \in 1..48 |-> <<(i - 1) \div 2, IF (i - 1) % 2 = 0 THEN 0 ELSE 30>>]
    ELSE IF ~restaurant.dayOpen THEN <<>>
    ELSE SlotsFrom(ParseMinutes(restaurant.open), ParseMinutes(restaurant.close))

Includes(list, x) == \E k \in 1..Len(list) : list[k] = x

\* formSchema: the fields the model carries
formSchema(values) ==
    /\ values.guests >= 1
    /\ values.time # EmptyTime
    /\ values.duration >= 30
    /\ values.table # NoTable

\* onSubmit of the booking form: what it does with the validated values,
\* given the memoised availableTables
onSubmit(values, memoTables) ==
    IF values.time = EmptyTime THEN [status |-> "refused", call |-> NoQuery]
    ELSE IF Len(availableTimeSlots) > 0 /\ ~Includes(availableTimeSlots, values.time)
         THEN [status |-> "refused", call |-> NoQuery]
    ELSE IF ~restaurant.present THEN [status |-> "refused", call |-> NoQuery]
    ELSE IF values.table = NoTable THEN [status |-> "refused", call |-> NoQuery]
    ELSE IF ~Includes(memoTables, values.table)
         THEN [status |-> "refused", call |-> NoQuery]
    ELSE IF ~\E k \in 1..Len(tablesData) : tablesData[k].table_number = values.table
         THEN [status |-> "refused", call |-> NoQuery]
    ELSE [status |-> "created", call |-> values]

InitAvail ==
    /\ isQuickEdit = FALSE
    /\ pendingChanges = EmptyMap
    /\ selectedBooking = NoBooking
    /\ clickOffsetPercent = 0
    /\ selectedBookingWidth = 0
    /\ previewPosition = NoPreview
    /\ resizeMode = NoMode
    /\ resizeBooking = NoBooking
    /\ previewDuration = 0
    /\ previewTime = EmptyTime
    /\ \E now \in ClockValues : currentTime = now[2] /\ anchorDay = now[1]
    /\ selectedDate = Today
    /\ isLive = TRUE
    /\ bookings \in BookingLists
    /\ server = bookings
    /\ inflight = EmptyBag
    /\ refetchPending = FALSE
    /\ lastPublished = NoPreview
    /\ lastStaged = NothingStaged
    /\ applyCount = 0
    /\ stagings = 0
    /\ navSteps = 0
    /\ timeInputValue = FormatText(currentTime)
    /\ tablesData \in TableLists
    /\ query \in Queries
    /\ answer = NoAnswer
    /\ onSlotClick = FALSE
    /\ slotEffect = NoSlotEffect
    /\ restaurant \in Restaurants
    /\ submitResult = NoSubmit
    /\ serverTables = tablesData
    /\ initialTime = NoInitialTime
    /\ NoPreviewCalendar
    /\ SignedIn

\* the new-booking calendar asks checkAvailability for the table of the
\* query and for the first available table
RunCheckAvailability ==
    /\ "calendar" \notin answer.done
    /\ answer' = [answer EXCEPT
                    !.done = @ \cup {"calendar"},
                    !.single = checkAvailability(query.time, query.date, query.table).ok,
                    !.first = checkAvailability(query.time, query.date, NoTable).table]
    /\ UNCHANGED <<calendarVars, bookings, server, tablesData, query, onSlotClick, previewVars, authVars,
                   slotEffect, restaurant, submitResult, serverTables>>

\* the booking form computes availableTables
RunAvailableTables ==
    /\ "form" \notin answer.done
    /\ answer' = [answer EXCEPT !.done = @ \cup {"form"},
                                !.form = availableTables]
    /\ UNCHANGED <<calendarVars, bookings, server, tablesData, query, onSlotClick, previewVars, authVars,
                   slotEffect, restaurant, submitResult, serverTables>>

\* form.handleSubmit(onSubmit): the schema is checked first, onSubmit runs
\* on values it accepts, with the availableTables of the last render
handleSubmit ==
    /\ "form" \in answer.done
    /\ submitResult.status = "none"
    /\ submitResult' = IF formSchema(query) THEN onSubmit(query, answer.form)
                       ELSE [status |-> "refused", call |-> NoQuery]
    /\ UNCHANGED <<calendarVars, bookings, server, tablesData, query, answer,
                   onSlotClick, previewVars, authVars, slotEffect, restaurant, serverTables>>

NextAvail == RunCheckAvailability \/ RunAvailableTables \/ handleSubmit

SpecAvail == InitAvail /\ [][NextAvail]_vars

----------------------------------------------------------------------------
(* The new-booking calendar (NewBookingCalendar) inside the booking form:   *)
(* the form's watched values are the record query, the preview booking is  *)
(* (previewTableState, previewTimeState), and the grid below it is given    *)
(* calendarDateTime as its initialTime.  A step is an event together with   *)
(* the effects of the renders it causes.                                    *)

\* defaultValues of the form
DefaultGuests == 2
DefaultDuration == 90
\* the initialisation looks this many minutes ahead
LOOK_AHEAD_MINUTES == 30

MaxNewNav == 2      \* hour steps and slot clicks, per behaviour

\* bookings = [] : the bookings query has delivered nothing
NoBookings == [i \in BookingIds |-> NoBooking]

\* the situations the form is opened in: the form's time and the stored
\* bookings; both tables are in use and seat the party
NewScenarios ==
    { \* both tables are taken at 19:00 and free from 19:30
      [time |-> <<19, 0>>,
       stored |-> [i \in BookingIds |->
                     IF i = 1 THEN Stored(1, <<18, 0>>, "1", 90)
                              ELSE Stored(2, <<17, 30>>, "2", 120)]],
      \* late evening: table "1" is taken at 23:30, table "2" is free
      [time |-> <<23, 30>>,
       stored |-> [i \in BookingIds |->
                     IF i = 1 THEN Stored(1, <<23, 0>>, "1", 60)
                              ELSE Stored(2, <<20, 0>>, "2", 60)]],
      \* both tables are taken at 19:00 and at 19:30
      [time |-> <<19, 0>>,
       stored |-> [i \in BookingIds |->
                     IF i = 1 THEN Stored(1, <<18, 30>>, "1", 120)
                              ELSE Stored(2, <<19, 0>>, "2", 180)]] }

\* calendarDateTime: the form's date with the time of the calendar view
calendarDateTime(q, viewTime) == <<q.date, ParseMinutes(viewTime)>>

\* the dependency list of the preview-update effect
UpdateDeps(q, tableState) == <<q.time, q.date, q.table, tableState>>

\* the tables that can seat the party, sorted by label
CapableTables ==
    SortTables(SelectSeq(tablesData,
                  LAMBDA t : t.is_active /\ t.max_capacity >= query.guests))

\* the initialisation effect while isInitialized.current is false: what it
\* sets the preview table and time to
InitializePreview ==
    IF initialTable # NoTable
    THEN [table |-> initialTable, time |-> query.time]
    ELSE LET tableAtCurrentTime == checkAvailability(query.time, query.date, NoTable).table
             nextTimeStr == FormatHHmm(ParseMinutes(query.time) + LOOK_AHEAD_MINUTES)
             tableAtNextTime == checkAvailability(nextTimeStr, query.date, NoTable).table
         IN IF tableAtCurrentTime # NoTable
            THEN [table |-> tableAtCurrentTime, time |-> query.time]
            ELSE IF tableAtNextTime # NoTable
            THEN [table |-> tableAtNextTime, time |-> nextTimeStr]
            ELSE IF Len(CapableTables) > 0
            THEN [table |-> CapableTables[1].table_number, time |-> query.time]
            ELSE [table |-> previewTableState, time |-> previewTimeState]

\* the preview-update effect, run with the preview p of the render and the
\* form values q, once isInitialized.current is true
UpdatePreview(p, q) ==
    IF p.table = NoTable THEN p
    ELSE [table |-> IF q.table # NoTable /\ q.table # p.table THEN q.table ELSE p.table,
          time |-> q.time]

\* the renders after an event: the preview-update effect runs whenever its
\* dependencies differ from those of its last run, until they do not
RECURSIVE SettlePreview(_, _, _)
SettlePreview(p, deps, q) ==
    IF UpdateDeps(q, p.table) = deps
    THEN [table |-> p.table, time |-> p.time, deps |-> deps]
    ELSE SettlePreview(UpdatePreview(p, q), UpdateDeps(q, p.table), q)

\* the grid's effect on [initialTime] for the calendarDateTime of the render
GridFollows(t) ==
    /\ initialTime' = t
    /\ currentTime' = t[2]
    /\ anchorDay' = t[1]
    /\ timeInputValue' = FormatText(t[2])
    /\ selectedDate' = t[1]
    /\ isLive' = FALSE

\* what no step of the new-booking calendar touches
NewFrame ==
    UNCHANGED <<isQuickEdit, pendingChanges, selVars, server, inflight, refetchPending,
                histVars, countVars, answer, onSlotClick, slotEffect, restaurant,
                submitResult, serverTables, initialTable, authVars>>

\* the effects of the first render: the initialisation effect and the
\* preview-update effect, which still sees no preview table, and then the
\* renders that follow
MountEffects ==
    /\ ~isInitialized
    /\ LET settled == SettlePreview(InitializePreview, UpdateDeps(query, NoTable), query)
       IN /\ previewTableState' = settled.table
          /\ previewTimeState' = settled.time
          /\ effectDeps' = settled.deps
    /\ isInitialized' = TRUE
    /\ NewFrame
    /\ UNCHANGED <<viewVars, initialTime, calendarViewTime, query, tablesData, bookings>>

\* the ['tables', id] query delivers
DeliverTables ==
    /\ isInitialized
    /\ tablesData # getTables(serverTables)
    /\ tablesData' = getTables(serverTables)
    /\ NewFrame
    /\ UNCHANGED <<viewVars, initialTime, calendarViewTime, query, bookings,
                   previewTableState, previewTimeState, isInitialized, effectDeps>>

\* the ['bookings'] query delivers
DeliverBookings ==
    /\ isInitialized
    /\ bookings # server
    /\ bookings' = server
    /\ NewFrame
    /\ UNCHANGED <<viewVars, initialTime, calendarViewTime, query, tablesData,
                   previewTableState, previewTimeState, isInitialized, effectDeps>>

\* the form values q and the view time are rendered: the preview-update
\* effect settles and the grid takes over calendarDateTime
Rerender(q, viewTime) ==
    /\ query' = q
    /\ calendarViewTime' = viewTime
    /\ LET settled == SettlePreview([table |-> previewTableState,
                                     time |-> previewTimeState], effectDeps, q)
       IN /\ previewTableState' = settled.table
          /\ previewTimeState' = settled.time
          /\ effectDeps' = settled.deps
    /\ GridFollows(calendarDateTime(q, viewTime))
    /\ navSteps' = navSteps + 1
    /\ NewFrame
    /\ UNCHANGED <<isInitialized, tablesData, bookings>>

\* the hour buttons of the new-booking calendar move the view by delta
\* minutes; onDateChange is called when the day changes
HourStep(delta) ==
    LET newDateTime == query.date * 1440 + ParseMinutes(calendarViewTime) + delta
        newDate == newDateTime \div 1440
    IN /\ isInitialized
       /\ calendarViewTime # EmptyTime
       /\ Rerender(IF newDate # query.date THEN [query EXCEPT !.date = newDate]
                   ELSE query,
                   FormatHHmm(newDateTime % 1440))

NewBookingCalendar_handlePreviousHour == HourStep(0 - 60)

NewBookingCalendar_handleNextHour == HourStep(60)

\* a click on a free slot of the grid: the form's handleSlotClick sets the
\* date, the time and the table
FormSlotClick(tableNumber, i) ==
    /\ isInitialized
    /\ ~isQuickEdit
    /\ slotRendered(i)
    /\ Rerender([query EXCEPT !.date = slotInstant(i) \div 1440,
                              !.time = FormatHHmm(slotInstant(i) % 1440),
                              !.table = tableNumber],
                calendarViewTime)

\* the form opened with or without a table, each query delivered before the
\* first render or not
InitNew ==
    /\ isQuickEdit = FALSE
    /\ pendingChanges = EmptyMap
    /\ selectedBooking = NoBooking
    /\ clickOffsetPercent = 0
    /\ selectedBookingWidth = 0
    /\ previewPosition = NoPreview
    /\ resizeMode = NoMode
    /\ resizeBooking = NoBooking
    /\ previewDuration = 0
    /\ previewTime = EmptyTime
    /\ initialTable \in {NoTable, "2"}
    /\ \E sc \in NewScenarios :
          /\ query = [time |-> sc.time, date |-> Today, duration |-> DefaultDuration,
                      guests |-> DefaultGuests, table |-> initialTable]
          /\ server = sc.stored
    /\ serverTables = <<FetchedTable("1", TRUE), FetchedTable("2", TRUE)>>
    /\ tablesData \in {<<>>, getTables(serverTables)}
    /\ bookings \in {NoBookings, server}
    /\ previewTableState = NoTable
    /\ previewTimeState = query.time
    /\ calendarViewTime = query.time
    /\ isInitialized = FALSE
    /\ effectDeps = NoDeps
    /\ initialTime = calendarDateTime(query, calendarViewTime)
    /\ currentTime = initialTime[2]
    /\ anchorDay = initialTime[1]
    /\ selectedDate = initialTime[1]
    /\ timeInputValue = FormatText(currentTime)
    /\ isLive = FALSE
    /\ inflight = EmptyBag
    /\ refetchPending = FALSE
    /\ lastPublished = NoPreview
    /\ lastStaged = NothingStaged
    /\ applyCount = 0
    /\ stagings = 0
    /\ navSteps = 0
    /\ answer = NoAnswer
    /\ onSlotClick = TRUE
    /\ slotEffect = NoSlotEffect
    /\ restaurant = NoRestaurant
    /\ submitResult = NoSubmit
    /\ SignedIn

NextNew ==
    \/ MountEffects
    \/ DeliverTables
    \/ DeliverBookings
    \/ navSteps < MaxNewNav /\ NewBookingCalendar_handlePreviousHour
    \/ navSteps < MaxNewNav /\ NewBookingCalendar_handleNextHour
    \/ \E tableNumber \in TableNumbers, i \in 0..(totalSlots - 1) :
          navSteps < MaxNewNav /\ FormSlotClick(tableNumber, i)

SpecNew == InitNew /\ [][NextNew]_vars

\* the same, where the effects of the first render run and each query
\* delivers in the end
SpecNewLive ==
    /\ InitNew
    /\ [][NextNew]_vars
    /\ WF_vars(MountEffects)
    /\ WF_vars(DeliverTables)
    /\ WF_vars(DeliverBookings)

----------------------------------------------------------------------------
(* The session (AuthProvider): the user of the context, the stored token   *)
(* and the getCurrentUser and login calls under way.  A getCurrentUser call *)
(* is the record [from, authorized]: who made it and whether it was sent    *)
(* with a token; the backend answers a call sent without one with an error, *)
(* and may answer any call with an error.                                   *)

MaxUserRequests == 2     \* getCurrentUser calls under way at a time

\* what no step of the session touches
AuthFrame ==
    UNCHANGED <<calendarVars, bookings, server, tablesData, query, answer, onSlotClick,
                slotEffect, restaurant, submitResult, serverTables, previewVars>>

\* the catch blocks: the token is dropped and nobody is signed in
DropSession ==
    /\ token' = FALSE
    /\ user' = NoUser
    /\ isLoading' = FALSE

\* logout()
logout ==
    /\ DropSession
    /\ loggedOut' = TRUE
    /\ UNCHANGED <<userRequests, loginStage>>
    /\ AuthFrame

\* refreshUser() up to its await
refreshUser ==
    /\ BagCardinality(userRequests) < MaxUserRequests
    /\ isLoading' = TRUE
    /\ userRequests' = userRequests (+) SetToBag({[from |-> "refresh", authorized |-> token]})
    /\ UNCHANGED <<user, token, loginStage, loggedOut>>
    /\ AuthFrame

\* getCurrentUser() of the initial load or of refreshUser resolves
UserResolves(req) ==
    /\ BagIn(req, userRequests)
    /\ req.from # "login"
    /\ req.authorized
    /\ userRequests' = userRequests (-) SetToBag({req})
    /\ user' = SomeUser
    /\ isLoading' = FALSE
    /\ UNCHANGED <<token, loginStage, loggedOut>>
    /\ AuthFrame

\* getCurrentUser() of the initial load or of refreshUser rejects
UserRejects(req) ==
    /\ BagIn(req, userRequests)
    /\ req.from # "login"
    /\ userRequests' = userRequests (-) SetToBag({req})
    /\ DropSession
    /\ UNCHANGED <<loginStage, loggedOut>>
    /\ AuthFrame

\* login() up to the await of loginRequest
login ==
    /\ loginStage = "idle"
    /\ loginStage' = "posting"
    /\ isLoading' = TRUE
    /\ UNCHANGED <<user, token, userRequests, loggedOut>>
    /\ AuthFrame

\* loginRequest resolves: the token is stored and getCurrentUser is called
LoginAccepted ==
    /\ loginStage = "posting"
    /\ BagCardinality(userRequests) < MaxUserRequests
    /\ token' = TRUE
    /\ userRequests' = userRequests (+) SetToBag({[from |-> "login", authorized |-> TRUE]})
    /\ loginStage' = "fetching"
    /\ loggedOut' = FALSE
    /\ UNCHANGED <<user, isLoading>>
    /\ AuthFrame

\* loginRequest rejects
LoginRefused ==
    /\ loginStage = "posting"
    /\ DropSession
    /\ loginStage' = "idle"
    /\ UNCHANGED <<userRequests, loggedOut>>
    /\ AuthFrame

\* getCurrentUser() of login resolves
LoginUserResolves(req) ==
    /\ BagIn(req, userRequests)
    /\ req.from = "login"
    /\ userRequests' = userRequests (-) SetToBag({req})
    /\ user' = SomeUser
    /\ isLoading' = FALSE
    /\ loginStage' = "idle"
    /\ UNCHANGED <<token, loggedOut>>
    /\ AuthFrame

\* getCurrentUser() of login rejects
LoginUserRejects(req) ==
    /\ BagIn(req, userRequests)
    /\ req.from = "login"
    /\ userRequests' = userRequests (-) SetToBag({req})
    /\ DropSession
    /\ loginStage' = "idle"
    /\ UNCHANGED <<loggedOut>>
    /\ AuthFrame

\* the provider after its first effect: without a stored token nobody is
\* signed in, with one the initial getCurrentUser is under way
InitAuth ==
    /\ isQuickEdit = FALSE
    /\ pendingChanges = EmptyMap
    /\ selectedBooking = NoBooking
    /\ clickOffsetPercent = 0
    /\ selectedBookingWidth = 0
    /\ previewPosition = NoPreview
    /\ resizeMode = NoMode
    /\ resizeBooking = NoBooking
    /\ previewDuration = 0
    /\ previewTime = EmptyTime
    /\ \E now \in ClockValues : currentTime = now[2] /\ anchorDay = now[1]
    /\ selectedDate = Today
    /\ isLive = TRUE
    /\ timeInputValue = FormatText(currentTime)
    /\ server = NoBookings
    /\ bookings = server
    /\ inflight = EmptyBag
    /\ refetchPending = FALSE
    /\ lastPublished = NoPreview
    /\ lastStaged = NothingStaged
    /\ applyCount = 0
    /\ stagings = 0
    /\ navSteps = 0
    /\ tablesData = <<>>
    /\ serverTables = <<>>
    /\ query = NoQuery
    /\ answer = NoAnswer
    /\ onSlotClick = FALSE
    /\ slotEffect = NoSlotEffect
    /\ restaurant = NoRestaurant
    /\ submitResult = NoSubmit
    /\ initialTime = NoInitialTime
    /\ NoPreviewCalendar
    /\ token \in BOOLEAN
    /\ user = NoUser
    /\ isLoading = token
    /\ userRequests = IF token THEN SetToBag({[from |-> "mount", authorized |-> TRUE]})
                      ELSE EmptyBag
    /\ loginStage = "idle"
    /\ loggedOut = FALSE

NextAuth ==
    \/ logout
    \/ refreshUser
    \/ \E req \in BagToSet(userRequests) : UserResolves(req)
    \/ \E req \in BagToSet(userRequests) : UserRejects(req)
    \/ login
    \/ LoginAccepted
    \/ LoginRefused
    \/ \E req \in BagToSet(userRequests) : LoginUserResolves(req)
    \/ \E req \in BagToSet(userRequests) : LoginUserRejects(req)

SpecAuth == InitAuth /\ [][NextAuth]_vars

----------------------------------------------------------------------------
(* Properties *)

Idle(sel, rb, rm, pp) ==
    sel = NoBooking /\ rb = NoBooking /\ rm = NoMode /\ pp = NoPreview

\* the step sends at least one update request
IssuesUpdate ==
    \E r \in BagToSet(inflight') : CopiesIn(r, inflight') > CopiesIn(r, inflight)

\* the requests for booking id the step sends
NewCopies(r) == CopiesIn(r, inflight') - CopiesIn(r, inflight)
IssuedFor(id) == {r \in BagToSet(inflight') : r.id = id /\ NewCopies(r) > 0}

\* the step confirms a resize / a move (a gesture is confirmed and staged)
ResizeConfirmStep ==
    resizeBooking # NoBooking /\ resizeMode # NoMode /\ stagings' = stagings + 1
MoveConfirmStep ==
    selectedBooking # NoBooking /\ stagings' = stagings + 1

\* the entries of the other bookings stay as they are
OthersKept(id) ==
    {e \in pendingChanges' : e.id # id} = {e \in pendingChanges : e.id # id}

\* C1: an update call is issued only by applyAll (handleApplyQuickEdit): a
\* step of any other handler, of the live tick or of the view navigation
\* sends no update request.
C1_OnlyApplyIssuesUpdates == [][IssuesUpdate => handleApplyQuickEdit]_vars

\* an update is in flight while the user, having navigated the view, is back
\* in quick edit resizing a booking
C1_Witness ==
    /\ BagCardinality(inflight) > 0
    /\ navSteps > 0
    /\ isQuickEdit
    /\ resizeBooking # NoBooking

\* C2: applyAll issues exactly one update per booking id in the pending set,
\* carrying the value staged last for that id, and none for the other ids.
C2_ApplySendsLatestOncePerId ==
    [][handleApplyQuickEdit =>
         \A id \in BookingIds :
            IF HasPending(id) \/ lastStaged[id] # NoEntry
            THEN \E r \in IssuedFor(id) :
                    /\ IssuedFor(id) = {r}
                    /\ NewCopies(r) = 1
                    /\ r.updates = [time |-> lastStaged[id].time,
                                    table |-> lastStaged[id].table,
                                    duration |-> lastStaged[id].duration]
            ELSE IssuedFor(id) = {}]_vars

\* applyAll has sent the updates of two bookings
C2_Witness ==
    /\ applyCount = 1
    /\ ~isQuickEdit
    /\ \E r1, r2 \in BagToSet(inflight) : r1.id # r2.id

\* start and end (minutes after midnight of its date) of a stored booking
Overlaps(a, b) ==
    /\ BookingMinutes(a) < BookingMinutes(b) + b.duration
    /\ BookingMinutes(a) + a.duration > BookingMinutes(b)

\* C3: the values sent to the backend never make two bookings of one table
\* and date overlap: the stored bookings stay free of overlap.
C3_NoOverlapPersisted ==
    \A i, j \in BookingIds :
       (i # j /\ server[i].table = server[j].table /\ server[i].date = server[j].date)
          => ~Overlaps(server[i], server[j])

\* C4: the interaction state is one of idle, moving, resizing-left,
\* resizing-right: never a moving and a resizing booking at once, and the
\* resize edge is set exactly when a resizing booking is.
C4_ExclusiveInteractionState ==
    /\ ~(selectedBooking # NoBooking /\ resizeBooking # NoBooking)
    /\ (resizeMode # NoMode) <=> (resizeBooking # NoBooking)
    /\ resizeMode \in {NoMode, "left", "right"}
    /\ (previewPosition # NoPreview) => (selectedBooking # NoBooking)

\* a resize is under way after a move of the other booking was staged
C4_Witness ==
    /\ resizeMode = "left"
    /\ resizeBooking.id = 2
    /\ \E e \in pendingChanges : e.id = 1 /\ e.table = "2"

\* C5: every change staged by confirming a resize has a duration within
\* [MIN_DURATION, MAX_DURATION].
C5_ResizeStagesDurationInRange ==
    [][ResizeConfirmStep =>
         \A e \in pendingChanges' :
            e.id = resizeBooking.id =>
               (e.duration >= MIN_DURATION /\ e.duration <= MAX_DURATION)]_vars

\* C6: a pointer move in the resizing-left state keeps preview start +
\* preview duration, so the end stays what it was on entering the resize.
C6_LeftResizeKeepsEnd ==
    [][(resizeMode = "left" /\ resizeMode' = "left" /\ resizeBooking # NoBooking
          /\ resizeBooking' = resizeBooking)
       => ParseMinutes(previewTime') + previewDuration'
             = ParseMinutes(previewTime) + previewDuration]_vars

C8_MoveStagesLastPreview ==
    [][(MoveConfirmStep /\ lastPublished # NoPreview) =>
         /\ Idle(selectedBooking', resizeBooking', resizeMode', previewPosition')
         /\ \E e \in pendingChanges' :
               /\ e.id = selectedBooking.id
               /\ e.time = lastPublished.time
               /\ e.table = lastPublished.table
               /\ e.duration = (IF HasPending(selectedBooking.id)
                                THEN PendingGet(selectedBooking.id).duration
                                ELSE selectedBooking.duration)
         /\ OthersKept(selectedBooking.id)]_vars

\* booking 1 was moved to the row of table "2" and the move is staged
C8_Witness ==
    /\ Idle(selectedBooking, resizeBooking, resizeMode, previewPosition)
    /\ stagings = 1
    /\ \E e \in pendingChanges : e.id = 1 /\ e.table = "2" /\ e.time # bookings[1].time

\* C9: in a resizing state a click on the same edge returns to idle and sets
\* the booking's entry to the previewed (time, duration) and to the table of
\* its pending change if it has one, else to its stored table.
C9_SameEdgeClickStagesPreview ==
    [][\A id \in BookingIds, side \in {"left", "right"} :
          (handleArrowClick(id, side) /\ resizeBooking.id = id /\ resizeMode = side)
          => /\ Idle(selectedBooking', resizeBooking', resizeMode', previewPosition')
             /\ \E e \in pendingChanges' :
                   /\ e.id = id
                   /\ e.time = previewTime
                   /\ e.duration = previewDuration
                   /\ e.table = (IF HasPending(id) THEN PendingGet(id).table
                                 ELSE bookings[id].table)]_vars

\* booking 1 was moved to table "2" and then resized: the entry has the new
\* duration and still table "2"
C9_Witness ==
    /\ Idle(selectedBooking, resizeBooking, resizeMode, previewPosition)
    /\ stagings = 2
    /\ \E e \in pendingChanges :
          e.id = 1 /\ e.table = "2" /\ e.duration # bookings[1].duration

\* C10 as stated: at most one entry per booking id, and a second edit of a
\* booking takes nothing from the first entry: a move stages the stored
\* duration, a resize the stored table.
C10_SecondEditNeverMerges ==
    [][/\ \A e1, e2 \in pendingChanges' : e1.id = e2.id => e1 = e2
       /\ (MoveConfirmStep /\ HasPending(selectedBooking.id))
            => \E e \in pendingChanges' :
                  e.id = selectedBooking.id /\ e.duration = selectedBooking.duration
       /\ (ResizeConfirmStep /\ HasPending(resizeBooking.id))
            => \E e \in pendingChanges' :
                  e.id = resizeBooking.id /\ e.table = resizeBooking.table]_vars

\* C10 amended: at most one entry per booking id; a second edit replaces the
\* entry: the fields the gesture edits take the previewed values, the field it
\* does not edit (duration for a move, table for a resize) is carried over
\* from the first entry; the entries of other bookings stay.
C10_SecondEditReplacesAndCarries ==
    [][/\ \A e1, e2 \in pendingChanges' : e1.id = e2.id => e1 = e2
       /\ (MoveConfirmStep /\ HasPending(selectedBooking.id))
            => /\ pendingChanges' =
                    {e \in pendingChanges : e.id # selectedBooking.id}
                      \cup {[id |-> selectedBooking.id,
                             time |-> previewPosition.time,
                             table |-> previewPosition.table,
                             duration |-> PendingGet(selectedBooking.id).duration]}
       /\ (ResizeConfirmStep /\ HasPending(resizeBooking.id))
            => /\ pendingChanges' =
                    {e \in pendingChanges : e.id # resizeBooking.id}
                      \cup {[id |-> resizeBooking.id,
                             time |-> previewTime,
                             table |-> PendingGet(resizeBooking.id).table,
                             duration |-> previewDuration]}]_vars

\* two gestures on one booking were confirmed and one entry is held
C10_Witness ==
    /\ stagings = 2
    /\ Cardinality(pendingChanges) = 1
    /\ Idle(selectedBooking, resizeBooking, resizeMode, previewPosition)

\* the Escape key is pressed while a gesture is in progress
EscapeStep ==
    handleKeyDown /\ (selectedBooking # NoBooking \/ resizeBooking # NoBooking)

\* C11: from moving, resizing-left or resizing-right the Escape key returns to
\* idle, stages nothing and sends nothing: the pending-change set and edit
\* mode are what they were.
C11_EscapeDiscardsPreview ==
    [][EscapeStep =>
         /\ Idle(selectedBooking', resizeBooking', resizeMode', previewPosition')
         /\ previewDuration' = 0
         /\ previewTime' = EmptyTime
         /\ pendingChanges' = pendingChanges
         /\ isQuickEdit' = isQuickEdit
         /\ ~IssuesUpdate]_vars

\* the state Escape is pressed in: booking 1 is being moved, its preview is
\* published over the row of table "2", and a change of booking 2 is staged
C11_Witness ==
    /\ selectedBooking.id = 1
    /\ lastPublished # NoPreview
    /\ lastPublished.table = "2"
    /\ HasPending(2)
    /\ ENABLED EscapeStep

\* C12: cancelAll empties the pending-change set, clears the selection or
\* resize in progress, turns edit mode off and sends no update.
C12_CancelAllDiscardsEverything ==
    [][handleCancelQuickEdit =>
         /\ pendingChanges' = EmptyMap
         /\ Idle(selectedBooking', resizeBooking', resizeMode', previewPosition')
         /\ previewDuration' = 0
         /\ previewTime' = EmptyTime
         /\ ~isQuickEdit'
         /\ ~IssuesUpdate]_vars

\* a gesture was staged and nothing was ever sent, yet the pending set is
\* empty and edit mode off: the staged change was cancelled
C12_Witness ==
    /\ stagings > 0
    /\ applyCount = 0
    /\ pendingChanges = EmptyMap
    /\ ~isQuickEdit

\* C13: applyAll clears the pending-change set and leaves edit mode on
\* completion of the updates it issued, not before: the step that issues
\* the updates keeps the pending set and edit mode.
C13_ApplyClearsOnCompletion ==
    [][IssuesUpdate => (pendingChanges' = pendingChanges /\ isQuickEdit')]_vars

\* C14: when the backend rejects the update of a pending entry, the entry is
\* still in the pending-change set, and the rejection sends no update again.
C14_RejectedEntryStaysPending ==
    [][\A req \in BagToSet(inflight) :
          UpdateFails(req) =>
             /\ \E e \in pendingChanges' :
                   /\ e.id = req.id
                   /\ e.time = req.updates.time
                   /\ e.table = req.updates.table
                   /\ e.duration = req.updates.duration
             /\ ~IssuesUpdate]_vars

\* C15: entering edit mode results in the idle state, and toggling edit mode
\* off while changes are pending is the step cancelAll takes: pending set
\* empty, selection cleared, edit mode off, no update sent.
C15_ToggleEntersIdleAndOffIsCancel ==
    [][/\ (~isQuickEdit /\ isQuickEdit')
            => /\ Idle(selectedBooking', resizeBooking', resizeMode', previewPosition')
               /\ previewDuration' = 0
               /\ previewTime' = EmptyTime
       /\ (handleCancelQuickEdit /\ pendingChanges # EmptyMap)
            => /\ toggleQuickEdit
               /\ pendingChanges' = EmptyMap
               /\ Idle(selectedBooking', resizeBooking', resizeMode', previewPosition')
               /\ ~isQuickEdit'
               /\ ~IssuesUpdate]_vars

\* edit mode was entered again after a staged change was discarded
C15_Witness ==
    /\ isQuickEdit
    /\ stagings > 0
    /\ applyCount = 0
    /\ pendingChanges = EmptyMap
    /\ Idle(selectedBooking, resizeBooking, resizeMode, previewPosition)

ResizeDurationAt(p) ==
    LET snapped == SnappedMouseMinutes(p)
        raw == IF resizeMode = "right"
               THEN snapped - ParseMinutes(previewTime)
               ELSE ParseMinutes(previewTime) + previewDuration - snapped
    IN Max(MIN_DURATION, Min(MAX_DURATION, raw))

\* C17: in a resizing state a click on the opposite edge changes the active
\* edge only: the resized booking, the preview time and duration and the
\* pending set are kept; a pointer move computes the duration from the edge
\* that is fixed then (the start for "right", the end for "left").
C17_OppositeEdgeSwitchesOnly ==
    [][/\ \A id \in BookingIds, side \in {"left", "right"} :
            (handleArrowClick(id, side) /\ resizeBooking.id = id
               /\ resizeMode # NoMode /\ resizeMode # side)
            => /\ resizeMode' = side
               /\ resizeBooking' = resizeBooking
               /\ previewTime' = previewTime
               /\ previewDuration' = previewDuration
               /\ selectedBooking' = selectedBooking
               /\ previewPosition' = previewPosition
               /\ pendingChanges' = pendingChanges
               /\ ~IssuesUpdate
       /\ (resizeMode # NoMode /\ resizeMode' = resizeMode
             /\ resizeBooking' = resizeBooking
             /\ <<previewTime', previewDuration'>> # <<previewTime, previewDuration>>)
            => \E p \in PointerPositions \cup NavPointerPositions :
                  previewDuration' = ResizeDurationAt(p)]_vars

\* a right resize whose preview start is not the booking's start: the start
\* was moved by a left resize and kept by the switch of the edge
C17_Witness ==
    /\ resizeMode = "right"
    /\ ~HasPending(resizeBooking.id)
    /\ previewTime # resizeBooking.time
    /\ previewDuration > 0

\* the requested interval [s, e) of the query, in minutes of its date
RequestStart == ParseMinutes(query.time)
RequestEnd == RequestStart + query.duration

\* the condition of C18 for the table with this label: some booking [s', e')
\* of the table on the date of the query has s < e' and e > s'
ConflictOn(label) ==
    \E i \in BookingIds :
       /\ bookings[i].table = label
       /\ bookings[i].date = query.date
       /\ RequestStart < BookingMinutes(bookings[i]) + bookings[i].duration
       /\ RequestEnd > BookingMinutes(bookings[i])

\* some booking of the table on the date of the query touches the request
TouchesOn(label) ==
    \E i \in BookingIds :
       /\ bookings[i].table = label
       /\ bookings[i].date = query.date
       /\ \/ RequestEnd = BookingMinutes(bookings[i])
          \/ RequestStart = BookingMinutes(bookings[i]) + bookings[i].duration

TableWith(label) == CHOOSE k \in 1..Len(tablesData) : tablesData[k].table_number = label
Listed(label) == \E k \in 1..Len(tablesData) : tablesData[k].table_number = label

\* the table passes the table test of checkAvailability / of the form
CalendarQualifies(label) ==
    /\ Listed(label)
    /\ tablesData[TableWith(label)].is_active
    /\ tablesData[TableWith(label)].max_capacity >= query.guests
FormQualifies(label) ==
    /\ Listed(label)
    /\ tablesData[TableWith(label)].is_active
    /\ \/ query.guests = 0
       \/ /\ tablesData[TableWith(label)].min_capacity <= query.guests
          /\ tablesData[TableWith(label)].max_capacity >= query.guests

InForm(label) == \E k \in 1..Len(answer.form) : answer.form[k] = label

\* C18: each availability check reports a conflict for a table exactly when
\* a booking [s', e') of that table and date has s < e' and e > s' for the
\* requested [s, e); bookings that only touch the request are no conflict.
C18_ConflictIffIntervalsOverlap ==
    /\ "calendar" \in answer.done =>
          /\ CalendarQualifies(query.table) =>
                (answer.single <=> ~ConflictOn(query.table))
          /\ answer.first # NoTable => ~ConflictOn(answer.first)
          /\ answer.first = NoTable =>
                \A l \in TableLabels : CalendarQualifies(l) => ConflictOn(l)
    /\ "form" \in answer.done =>
          \A l \in TableLabels :
             FormQualifies(l) => (InForm(l) <=> ~ConflictOn(l))

\* both resolvers have answered for a table whose only booking of the day
\* touches the request, and both report it free
C18_Witness ==
    /\ answer.done = {"calendar", "form"}
    /\ TouchesOn(query.table)
    /\ ~ConflictOn(query.table)
    /\ answer.single
    /\ InForm(query.table)

\* C19: every availability decision takes a table as available only if it
\* is active and min_capacity <= partySize <= max_capacity (no capacity test
\* for party size zero), in the form's availableTables and in both branches
\* of checkAvailability alike, so that the resolvers agree on the table of
\* the query.
C19_CapacityRuleSharedByResolvers ==
    answer.done = {"calendar", "form"} =>
       /\ answer.single => FormQualifies(query.table)
       /\ answer.first # NoTable => FormQualifies(answer.first)
       /\ \A l \in TableLabels : InForm(l) => FormQualifies(l)
       /\ answer.single <=> InForm(query.table)

\* C20: the first-available query returns, of the qualifying tables without
\* a conflict on the date, the one whose label comes first in numeric order
\* ("1" before "2" before "10"), and null when there is none.
C20_FirstAvailableInNumericOrder ==
    "calendar" \in answer.done =>
       LET free == {l \in TableLabels : CalendarQualifies(l) /\ ~ConflictOn(l)}
       IN IF free = {} THEN answer.first = NoTable
          ELSE /\ answer.first \in free
               /\ \A l \in free :
                     NumberOf(Chars(answer.first)) <= NumberOf(Chars(l))

\* table "2" is returned although table "10" is free as well and listed
\* before it, table "1" being taken or out of use
C20_Witness ==
    /\ "calendar" \in answer.done
    /\ answer.first = "2"
    /\ tablesData[1].table_number = "10"
    /\ CalendarQualifies("10")
    /\ ~ConflictOn("10")
    /\ (ConflictOn("1") \/ ~CalendarQualifies("1"))


----------------------------------------------------------------------------
(* The booking form's submission *)

\* the submission went through to createBooking
Created == submitResult.status = "created"

\* C21: submitting the booking form issues a createBooking call only if the
\* chosen table is in availableTables for the form's date, time, duration and
\* guests (active, capacity fits, no overlapping booking) and the time is
\* one of the offered time slots; an occupied slot is always refused, and a
\* refused submission issues no create call.
C21_SubmitCreatesOnlyWhatIsOffered ==
    /\ Created =>
          /\ submitResult.call = query
          /\ FormQualifies(query.table)
          /\ ~ConflictOn(query.table)
          /\ Includes(availableTimeSlots, query.time)
    /\ submitResult.status # "none" /\ ConflictOn(query.table) => ~Created
    /\ ~Created => submitResult.call = NoQuery


----------------------------------------------------------------------------
(* The move preview *)

\* the pointer-derived time of a move, in half minutes after midnight of the
\* selected date: viewStart plus the pointer position less the grab offset
PointerHalfMinutes(p) ==
    2 * viewStartMinutes + Max(0, Min(2 * TOTAL_WINDOW_MINUTES, p - clickOffsetPercent))

\* Math.round(m / 15) * 15 of the exact minute-of-hour m of that time, put
\* back into its hour
NearestQuarter(p) ==
    LET h == PointerHalfMinutes(p)
    IN (h \div 120) * 60 + MathRound(h % 120, 2 * SNAP_MINUTES) * SNAP_MINUTES

\* C22: while a booking is moved, the time of the published preview is the
\* 15-minute boundary nearest to the pointer-derived time, Math.round(m/15)*15
\* of the exact minute value m with its sub-minute part, and so always a
\* multiple of 15 minutes.
C22_MovePreviewIsNearestQuarter ==
    [][\A t \in TableNumbers, p \in PointerPositions :
          (/\ handleMouseMove(t, p)
           /\ selectedBooking # NoBooking
           /\ ~(resizeBooking # NoBooking /\ resizeMode # NoMode)) =>
             /\ previewPosition'.time = FormatHHmm(NearestQuarter(p))
             /\ ParseMinutes(previewPosition'.time) % SNAP_MINUTES = 0]_vars


----------------------------------------------------------------------------
(* The view: window, live clock, time input, slots *)

\* the visible window starts at the instant one hour before the anchor
\* (minutes after midnight of day 0)
WindowAtAnchor ==
    selectedDate * 1440 + viewStartMinutes
       = anchorDay * 1440 + currentTime - WINDOW_HOURS_PREV * 60

\* C23: when the anchor is moved by a whole hour, also across midnight, the
\* selected date follows the anchor's calendar day, so that a window that
\* started at anchor minus one hour still does after the step.
C23_HourStepKeepsWindowAtAnchor ==
    [][((handlePreviousHour \/ handleNextHour) /\ WindowAtAnchor)
          => WindowAtAnchor']_vars


\* C24: a tick of the minute timer leaves the anchor alone while live
\* tracking is off and sets it to the clock value read at that tick while it
\* is on; turning live tracking on sets the anchor to the clock value read at
\* that moment, whatever ticks went by while it was off.
C24_TicksFollowClockOnlyWhenLive ==
    [][\A now \in ViewClockValues :
          /\ LiveTick(now) =>
                IF isLive THEN <<anchorDay', currentTime'>> = now
                          ELSE UNCHANGED <<anchorDay, currentTime>>
          /\ (toggleLive(now) /\ ~isLive) =>
                isLive' /\ <<anchorDay', currentTime'>> = now]_vars

\* live tracking was turned off and on again and the anchor stands at the
\* latest clock value, five past midnight of the next day
C24_Witness ==
    /\ isLive
    /\ navSteps = 2
    /\ <<anchorDay, currentTime>> = <<1, 5>>
    /\ timeInputValue = FormatText(5)


\* the text is an HH:MM value: one or two digits of an hour 0 .. 23, a colon,
\* two digits of a minute 00 .. 59
ValidTimeText(t) ==
    \E k \in {2, 3} :
       /\ Len(t) = k + 2
       /\ t[k] = ":"
       /\ \A j \in (1..(k + 2)) \ {k} : IsDigit(t[j])
       /\ NumberOfText(SubSeq(t, 1, k - 1)) \in 0..23
       /\ NumberOfText(SubSeq(t, k + 1, k + 2)) \in 0..59

\* the minute of the day a valid text names
TimeOfText(t) ==
    LET k == CHOOSE j \in {2, 3} : Len(t) = j + 2
    IN NumberOfText(SubSeq(t, 1, k - 1)) * 60 + NumberOfText(SubSeq(t, k + 1, k + 2))

\* C25: submitting a typed time that is no valid HH:MM value leaves the
\* anchor as it is and puts the anchor's HH:mm back into the input;
\* submitting a valid one sets the anchor's time of day to it and leaves the
\* anchor's day, the selected date and the live flag alone; neither sends a
\* request.
C25_TimeSubmitRejectsInvalidText ==
    [][handleTimeSubmit =>
          /\ IF ValidTimeText(timeInputValue)
             THEN /\ currentTime' = TimeOfText(timeInputValue)
                  /\ timeInputValue' = FormatText(currentTime')
             ELSE /\ currentTime' = currentTime
                  /\ timeInputValue' = FormatText(currentTime)
          /\ UNCHANGED <<anchorDay, selectedDate, isLive, inflight, refetchPending,
                         pendingChanges, selVars>>]_vars

\* "07:30" or "7:30" was typed and submitted: the anchor is at 07:30 of its day
C25_Witness ==
    /\ ~isLive
    /\ currentTime = 450
    /\ anchorDay = Today
    /\ timeInputValue = FormatText(450)


\* C26: outside edit mode a click on a half-hour slot has exactly one
\* effect, the onSlotClick callback if the parent gave one and else the
\* navigation to the new-booking page, either carrying the slot's date, time
\* and table; in edit mode no slot click has an effect; and a slot click
\* leaves the pending changes and the interaction state as they are.
C26_SlotClickHasOneEffect ==
    [][slotEffect' # slotEffect =>
          /\ ~isQuickEdit
          /\ slotEffect'.callback = onSlotClick
          /\ slotEffect'.navigate = ~onSlotClick
          /\ \E tableNumber \in TableNumbers, i \in 0..(totalSlots - 1) :
                /\ slotRendered(i)
                /\ slotEffect'.table = tableNumber
                /\ slotEffect'.date * 1440 + ParseMinutes(slotEffect'.time)
                      = slotInstant(i)
          /\ slotEffect'.time[2] \in {0, 30}
          /\ UNCHANGED <<isQuickEdit, pendingChanges, selVars>>]_vars

\* the parent's callback got the slot of table "2" at 00:30 of the day after
\* the selected one, in the window that runs past midnight
C26_Witness ==
    /\ onSlotClick
    /\ slotEffect.callback /\ ~slotEffect.navigate
    /\ slotEffect.table = "2"
    /\ slotEffect.date = selectedDate + 1
    /\ slotEffect.time = <<0, 30>>


----------------------------------------------------------------------------
(* Inactive tables *)

\* the restaurant has the table and it is out of use
InactiveTable(label) ==
    \E k \in 1..Len(serverTables) :
       serverTables[k].table_number = label /\ ~serverTables[k].is_active

\* C27: no move stages a pending change that puts a booking on an inactive
\* table: the table of the entry a confirmed move stores, when it is not the
\* table the booking was on, is not an inactive table of the restaurant.
C27_NoMoveOntoInactiveTable ==
    [][MoveConfirmStep =>
          \A e \in pendingChanges' :
             (e.id = selectedBooking.id
                /\ e.table # getEffectiveBooking(selectedBooking).table)
                => ~InactiveTable(e.table)]_vars


----------------------------------------------------------------------------
(* Composition of stagings *)

\* C28: stagings on one booking compose: a move confirmed on a booking with
\* a pending change keeps that change's duration, a resize confirmed on it
\* keeps that change's table and, when it is confirmed on the right edge,
\* that change's start time.
C28_StagingsCarryOver ==
    [][/\ (MoveConfirmStep /\ HasPending(selectedBooking.id)) =>
             \E e \in pendingChanges' :
                /\ e.id = selectedBooking.id
                /\ e.duration = PendingGet(selectedBooking.id).duration
       /\ (ResizeConfirmStep /\ HasPending(resizeBooking.id)) =>
             \E e \in pendingChanges' :
                /\ e.id = resizeBooking.id
                /\ e.table = PendingGet(resizeBooking.id).table
                /\ resizeMode = "right" => e.time = PendingGet(resizeBooking.id).time]_vars

\* C28 amended: a move confirmed on a booking with a pending change keeps
\* that change's duration; a resize confirmed on it keeps that change's table
\* and stages the previewed start; a right resize entered from idle starts
\* from the pending start and duration, and the start stays while the right
\* edge is dragged - so the pending start is kept unless the left edge was
\* dragged in the same gesture before the edge was switched.
C28_StagingsCarryOverWhatIsNotDragged ==
    [][/\ (MoveConfirmStep /\ HasPending(selectedBooking.id)) =>
             \E e \in pendingChanges' :
                /\ e.id = selectedBooking.id
                /\ e.duration = PendingGet(selectedBooking.id).duration
       /\ (ResizeConfirmStep /\ HasPending(resizeBooking.id)) =>
             \E e \in pendingChanges' :
                /\ e.id = resizeBooking.id
                /\ e.table = PendingGet(resizeBooking.id).table
                /\ e.time = previewTime
       /\ \A id \in BookingIds :
             (/\ Idle(selectedBooking, resizeBooking, resizeMode, previewPosition)
              /\ HasPending(id)
              /\ handleArrowClick(id, "right")
              /\ resizeMode' = "right") =>
                /\ previewTime' = PendingGet(id).time
                /\ previewDuration' = PendingGet(id).duration
       /\ (resizeMode = "right" /\ resizeMode' = "right"
             /\ resizeBooking # NoBooking /\ resizeBooking' = resizeBooking) =>
                previewTime' = previewTime]_vars

\* booking 1 was moved to another row and time and then resized on its
\* right edge: its one entry has the moved table and start and a new duration
C28_Witness ==
    /\ stagings = 2
    /\ Idle(selectedBooking, resizeBooking, resizeMode, previewPosition)
    /\ \E e \in pendingChanges :
          /\ e.id = 1
          /\ e.table # bookings[1].table
          /\ e.time # bookings[1].time
          /\ e.duration # bookings[1].duration
          /\ ParseMinutes(e.time) + e.duration
                # ParseMinutes(bookings[1].time) + bookings[1].duration


----------------------------------------------------------------------------
(* Edit mode *)

\* C29: whenever edit mode is off the pending-change set is empty and the
\* interaction state is idle - so every way of leaving edit mode (apply,
\* cancel, toggle) leaves it so, and nothing done outside edit mode stages a
\* change or selects a booking.
C29_OutsideEditModeNothingPendingOrSelected ==
    ~isQuickEdit =>
       /\ pendingChanges = EmptyMap
       /\ Idle(selectedBooking, resizeBooking, resizeMode, previewPosition)
       /\ previewDuration = 0
       /\ previewTime = EmptyTime

\* edit mode was left by applyAll and the update it sent has been answered
C29_Witness ==
    /\ ~isQuickEdit
    /\ applyCount = 1
    /\ inflight = EmptyBag
    /\ \E i \in BookingIds : server[i] # bookings[i]


----------------------------------------------------------------------------
(* Staging between an applied update and the refetch *)

\* C30: a gesture confirmed on a booking without a pending change carries
\* over the booking's most recently applied values - the values the backend
\* holds, also when an update of applyAll was stored and the refetch has not
\* yet replaced the snapshot: a move carries the applied duration, a resize
\* the applied table.
C30_RestagingCarriesAppliedValues ==
    [][/\ (MoveConfirmStep /\ ~HasPending(selectedBooking.id)) =>
             \E e \in pendingChanges' :
                /\ e.id = selectedBooking.id
                /\ e.duration = server[selectedBooking.id].duration
       /\ (ResizeConfirmStep /\ ~HasPending(resizeBooking.id)) =>
             \E e \in pendingChanges' :
                /\ e.id = resizeBooking.id
                /\ e.table = server[resizeBooking.id].table]_vars


----------------------------------------------------------------------------
(* After applyAll *)

\* the stored booking carries the values of the update request
Carries(b, req) ==
    /\ b.time = req.updates.time
    /\ b.table = req.updates.table
    /\ b.duration = req.updates.duration

\* nothing is in flight, no refetch is due, and every booking is drawn as
\* the backend holds it
Settled ==
    /\ inflight = EmptyBag
    /\ ~refetchPending
    /\ \A i \in BookingIds : getEffectiveBooking(bookings[i]) = server[i]

\* C31: after applyAll, with every update accepted and no further edit, each
\* accepted update puts the staged time, table and duration of its booking
\* into the backend and changes no other booking; the snapshot changes only
\* by taking over the backend's bookings as a whole; and in whatever order
\* the answers and the refetches come, in the end nothing is in flight, no
\* refetch is due and the snapshot shows the backend's bookings - so each
\* booking that had a pending entry is shown with its staged values.
C31_AppliedChangesEventuallyDisplayed ==
    /\ [][\A req \in BagToSet(inflight) :
            UpdateSucceeds(req) =>
               /\ Carries(server'[req.id], req)
               /\ \A j \in BookingIds \ {req.id} : server'[j] = server[j]]_vars
    /\ [][bookings' # bookings => (bookings' = server /\ server' = server)]_vars
    /\ (inflight # EmptyBag) ~> Settled

\* both bookings were moved to the other row, the two updates were sent and
\* accepted, and the snapshot shows the bookings on their new rows
C31_Witness ==
    /\ applyCount = 1
    /\ Settled
    /\ bookings[1].table = "2"
    /\ bookings[2].table = "1"


----------------------------------------------------------------------------
(* The block drawn during a resize *)

\* a resize is in progress
Resizing == resizeBooking # NoBooking /\ resizeMode # NoMode

\* C32: in a resizing state the block drawn for the resized booking has the
\* time and duration that a confirmation at that moment would stage,
\* whether or not the booking has a pending change.
C32_ResizeBlockShowsWhatConfirmStages ==
    Resizing =>
       LET drawn == getEffectiveBooking(bookings[resizeBooking.id])
           staged == StagedResize(resizeBooking)
       IN /\ drawn.time = staged.time
          /\ drawn.duration = staged.duration


\* the entry a click on the same edge stores for the resize in progress: the
\* previewed time and duration on the booking's current table
ResizeEntry ==
    [id |-> resizeBooking.id,
     time |-> previewTime,
     table |-> IF HasPending(resizeBooking.id) THEN PendingGet(resizeBooking.id).table
               ELSE bookings[resizeBooking.id].table,
     duration |-> previewDuration]

\* the step has the effect of confirming the resize in progress
ConfirmsResize ==
    /\ pendingChanges' =
          {e \in pendingChanges : e.id # resizeBooking.id} \cup {ResizeEntry}
    /\ Idle(selectedBooking', resizeBooking', resizeMode', previewPosition')
    /\ isQuickEdit'

\* C33: in a resizing state a click on any table row or on the body of a
\* booking confirms the resize as a click on the same edge does - it stages
\* the previewed time and duration on the booking's current table and
\* returns to idle - and a resize ends without a staging only by Escape,
\* cancelAll or applyAll.
C33_AnyClickConfirmsResize ==
    [][/\ \A t \in TableNumbers :
            (Resizing /\ isQuickEdit /\ handleRowClick(t)) => ConfirmsResize
       /\ \A id \in BookingIds, zone \in {"left", "right", "middle"}, g \in GrabOffsets :
            (Resizing /\ isQuickEdit /\ handleBookingClick(id, zone, g)) => ConfirmsResize
       /\ \A id \in BookingIds :
            (Resizing /\ handleArrowClick(id, resizeMode)) => ConfirmsResize
       /\ (Resizing /\ ~Resizing' /\ ~ConfirmsResize) =>
            (handleKeyDown \/ handleCancelQuickEdit \/ handleApplyQuickEdit)]_vars

\* a move or a resize is in progress
InGesture == selectedBooking # NoBooking \/ Resizing

\* C34: when applyAll runs while a move or a resize is in progress, the
\* unconfirmed preview is dropped - it is not put into the pending set and no
\* update is sent for it - exactly the entries staged before are sent, and
\* the state ends idle with edit mode off.
C34_ApplyDropsUnconfirmedPreview ==
    [][(InGesture /\ handleApplyQuickEdit) =>
          /\ inflight' = inflight (+) SetToBag(ApplyRequests(pendingChanges))
          /\ pendingChanges' = EmptyMap
          /\ Idle(selectedBooking', resizeBooking', resizeMode', previewPosition')
          /\ previewTime' = EmptyTime /\ previewDuration' = 0
          /\ ~isQuickEdit']_vars

\* booking 2 is staged, booking 1 is being dragged to another row, and Apply
\* can be pressed
C34_Witness ==
    /\ selectedBooking.id = 1
    /\ previewPosition # NoPreview
    /\ previewPosition.table # selectedBooking.table
    /\ HasPending(2) /\ ~HasPending(1)
    /\ ENABLED handleApplyQuickEdit

\* the instants of the visible window, in minutes after midnight of day 0
WindowStartInstant == selectedDate * 1440 + viewStartMinutes
WindowEndInstant == WindowStartInstant + TOTAL_WINDOW_MINUTES

\* the instant shown at pointer position p less the grab offset, in half
\* minutes after midnight of day 0
GrabbedHalfMinutes(p) ==
    2 * WindowStartInstant + Max(0, Min(2 * TOTAL_WINDOW_MINUTES, p - clickOffsetPercent))

\* the instant a (date, time) pair denotes
InstantOf(date, time) == date * 1440 + ParseMinutes(time)

\* C35: the (date, time) a move stages - the booking's date with the time of
\* the published preview - denotes the instant shown under the pointer less
\* the grab offset, rounded to 15 minutes, also in the part of the window
\* after midnight, and never an instant outside the visible window.
C35_MoveStagesInstantUnderPointer ==
    [][/\ \A t \in TableNumbers, p \in PointerPositions :
            (/\ handleMouseMove(t, p)
             /\ selectedBooking # NoBooking
             /\ ~Resizing) =>
               LET staged == InstantOf(selectedBooking.date, previewPosition'.time)
                   off == 2 * staged - GrabbedHalfMinutes(p)
               IN /\ staged % SNAP_MINUTES = 0
                  /\ off <= SNAP_MINUTES /\ -off <= SNAP_MINUTES
                  /\ staged >= WindowStartInstant
                  /\ staged <= WindowEndInstant
       /\ \A t \in TableNumbers :
            (/\ handleRowClick(t)
             /\ isQuickEdit
             /\ selectedBooking # NoBooking
             /\ previewPosition # NoPreview
             /\ ~Resizing) =>
               /\ bookings'[selectedBooking.id].date = selectedBooking.date
               /\ \E e \in pendingChanges' :
                     e.id = selectedBooking.id /\ e.time = previewPosition.time]_vars

\* a step of the user's navigation or of the effect on a changed initialTime
ManualNavigation ==
    \/ handlePreviousHour
    \/ handleNextHour
    \/ handlePreviousDay
    \/ handleNextDay
    \/ \E newDate \in PickedDates : onSelect(newDate)
    \/ \E text \in TypedTexts : handleTimeChange(text)
    \/ \E t \in InitialTimes : initialTimeEffect(t)

\* the view position: the anchor and the day shown
ViewPosition == <<anchorDay, currentTime, selectedDate>>

\* C36: every manual navigation (previous / next hour, previous / next day,
\* a picked date, an edit of the time input) and every change of the
\* initialTime prop turns live tracking off; live tracking is on only after
\* a mount without initialTime or a toggleLive; and a tick of the timer
\* leaves the view position alone while live tracking is off.
C36_NavigationTurnsLiveOff ==
    /\ (isLive => initialTime = NoInitialTime)
    /\ [][/\ ManualNavigation => ~isLive'
          /\ (~isLive /\ isLive') => \E now \in ViewClockValues : toggleLive(now)
          /\ \A now \in ViewClockValues :
                (~isLive /\ LiveTick(now)) => ViewPosition' = ViewPosition]_vars

\* the grid was mounted with initialTime, live tracking was switched on and
\* has followed the clock, and the parent can hand in another initialTime
C36_Witness ==
    /\ isLive
    /\ initialTime = <<0, 1380>>
    /\ currentTime # 1380
    /\ ENABLED initialTimeEffect(<<1, 30>>)

\* a step of the hour buttons of the new-booking calendar
NewHourStep ==
    NewBookingCalendar_handlePreviousHour \/ NewBookingCalendar_handleNextHour

\* C37: in the new-booking calendar the previous-hour and next-hour buttons
\* change the calendar view only: the preview booking keeps its date, time
\* and table and the form keeps its date and time, also when the view is
\* moved across midnight.
C37_HourStepMovesOnlyTheView ==
    [][NewHourStep =>
          /\ previewTableState' = previewTableState
          /\ previewTimeState' = previewTimeState
          /\ query'.date = query.date
          /\ query'.time = query.time]_vars

\* the time the initialisation looks ahead to
NextTimeStr == FormatHHmm(ParseMinutes(query.time) + LOOK_AHEAD_MINUTES)

\* the form was opened without a table, no capable table is free at the
\* form's time and one is free 30 minutes later
FreeOnlyLater ==
    /\ initialTable = NoTable
    /\ checkAvailability(query.time, query.date, NoTable).table = NoTable
    /\ checkAvailability(NextTimeStr, query.date, NoTable).table # NoTable

\* C38: when the new-booking calendar initialises without initialTable and
\* no capable table is free at the form's time while one is free 30 minutes
\* later, the preview ends up on that table at the later time, the form's
\* time stays, and the settled preview overlaps no booking.
C38_InitialPreviewTakesLaterFreeSlot ==
    [][(MountEffects /\ FreeOnlyLater) =>
          /\ previewTableState' = checkAvailability(NextTimeStr, query.date, NoTable).table
          /\ previewTimeState' = NextTimeStr
          /\ query'.time = query.time
          /\ ~hasConflict(ParseMinutes(previewTimeState'),
                          ParseMinutes(previewTimeState') + query.duration,
                          query.date, previewTableState')]_vars

\* both queries have delivered and a table in use can seat the party
DataDelivered ==
    /\ tablesData = getTables(serverTables)
    /\ bookings = server
    /\ Len(CapableTables) > 0

\* C39: in the new-booking calendar, once the tables query and the bookings
\* query have delivered and a table in use can seat the party, a preview
\* booking is placed in the end, whether the data was there at the first
\* render or came after it, and a click on a slot then moves the preview to
\* the table clicked.
C39_PreviewIsPlacedOnceDataIsThere ==
    /\ DataDelivered ~> (previewTableState # NoTable)
    /\ [][\A tableNumber \in TableNumbers, i \in 0..(totalSlots - 1) :
            (previewTableState # NoTable /\ FormSlotClick(tableNumber, i)) =>
               previewTableState' = tableNumber]_vars

\* C40: after logout the session stays at user = null with no stored token
\* until a login succeeds, whatever getCurrentUser calls of the initial load
\* or of refreshUser were under way at the logout and are answered after it.
C40_LoggedOutStaysLoggedOut ==
    loggedOut => (user = NoUser /\ token = FALSE)

====
